---- MODULE Spec2Model ----
(***************************************************************************)
(* Job lifecycle and progress propagation of the docx2md converter.        *)
(*                                                                         *)
(*   Spec / SpecFair : the in-memory server (server/server-simple.js)      *)
(*   SpecQueue       : the queue-backed server (server/server.js)          *)
(*   SpecRenderer    : the local renderer (App.tsx, webFileHandler.ts)     *)
(*   SpecClient      : WebAPIClient.convertFiles (utils/apiClient.ts)      *)
(*                                                                         *)
(* Every JavaScript run-to-completion segment (a handler up to its next    *)
(* await) is one action.                                                   *)
(***************************************************************************)
EXTENDS Integers, Sequences, FiniteSets, TLC

VARIABLES
    \* ---- in-memory server (server-simple.js) ----
    jobs,               \* const jobs = new Map()            jobId -> record
    activeConversions,  \* const activeConversions = new Map()  (its key set)
    calls,              \* processConversion invocations awaiting convertWithMarkItDown
    nextUuid,           \* number of uuidv4() values drawn so far
    oplog,              \* the jobs.set, io.emit and res.json calls of the last segment, in order
    emitted,            \* jobId -> the conversion-progress events emitted with that jobId
    lastReq,            \* the last POST /api/convert request and its response
    batchOf,            \* jobId -> number of the request that created it
    reqCount,           \* POST /api/convert requests that passed validation
    connected,          \* sockets currently connected to io
    rooms,              \* <<socket, fileId>> room memberships (join-file)
    received,           \* socket -> conversion-progress events delivered to it
    lateJoin,           \* room joins made while a job of the file was terminal
    \* ---- queue-backed server (server.js) ----
    qJobs,              \* the jobs of conversionQueue: Bull job id -> [data, state, progress]
    qEvents,            \* the conversion-progress events emitted, in order
    hPc,                \* where the POST /api/convert handler is
    hFiles,             \* req.body.files of the request being handled
    hIdx,               \* index of the loop's current file
    hHandles,           \* the handler's local `jobs` array
    hJob,               \* the job whose conversionQueue.add is awaited
    qResp,              \* the last response of POST /api/convert
    wPc,                \* where the queue worker is
    wJob,               \* the job the worker is processing
    \* ---- local renderer (App.tsx, webFileHandler.ts) ----
    tasks,              \* const [tasks, setTasks] = useState([])
    isConverting,       \* const [isConverting, setIsConverting] = useState(false)
    taskIds,            \* number of task ids handed out by selectFiles
    runTasks,           \* the `tasks` argument of the running convertFiles call
    runIdx,             \* index of the task whose conversion is awaited (0: no run)
    runCur,             \* the loop's `updatedTask` while the conversion is awaited
    outputDirectory,    \* const [outputDirectory, setOutputDirectory] = useState('')
    runDir,             \* the `outputDir` argument of the running convertFiles call
    \* ---- WebAPIClient (apiClient.ts) ----
    cPc,                \* where the convertFiles call is
    cFiles,             \* its `files` argument
    cObserver,          \* whether an onProgress callback was passed
    cTasks,             \* its local `tasks` array
    cUploaded,          \* the files POST /api/upload answered
    cCause,             \* why the call failed, if it did
    cRead,              \* conversion-progress events the socket handler has processed
    progressCallbacks,  \* private progressCallbacks: Map, fileId -> callback
    cSent,              \* the messages emitted on the socket the server has not handled, in order
    cSocket,            \* whether the module's `socket` is set (it is null after cleanup)
    cSubs,              \* the onConversionProgress calls of outside observers; `off`: ended since
    cDelivered,         \* observer -> positions of the events its callback was called with
    cNotified,          \* the task index and id of every onProgress(task) call
    \* ---- local converters (WebOnlyConverter, WebFileHandler, ConverterApp) ----
    lPc,                \* where the convertFiles call is
    lVariant,           \* which converter runs
    lBad,               \* the statuses on which the caller's onProgress throws
    lTasks,             \* its `tasks` argument
    lDir,               \* its `outputDir` argument
    lIdx,               \* index of the loop's current task
    lCur,               \* the loop's `updatedTask` while an await is pending
    lUpdated,           \* its local `updatedTasks` array
    lSeen,              \* the snapshots handed to the observer, in order
    \* ---- web renderer (App.tsx lines 177-540, webFileHandler.ts lines 156-311) ----
    webPc,              \* where handleConversion / WebFileHandler.convertFiles is
    webUi,                \* const [tasks, setTasks] = useState([])
    webConverting,        \* const [isConverting, setIsConverting] = useState(false)
    webDownloads,         \* the ids webAPIClient.downloadFile was called with
    webIds,               \* number of task ids handed out by selectFiles and selectFolder
    webRun,               \* the `tasks` handleConversion was called with
    \* ---- the engine adapter convertWithMarkItDown (server-simple.js 102-198) ----
    aPc,                \* per invocation: idle, running, errored, threw or closed
    aPromise,           \* per invocation: pending, resolved or rejected
    tempScripts,        \* the invocations whose temporary script file exists
    unlinks             \* the fs.unlink calls that have not settled yet

srvVars == <<jobs, activeConversions, calls, nextUuid, oplog, emitted, lastReq, batchOf,
             reqCount, connected, rooms, received, lateJoin>>

qVars == <<qJobs, qEvents, hPc, hFiles, hIdx, hHandles, hJob, qResp, wPc, wJob>>

rVars == <<tasks, isConverting, taskIds, runTasks, runIdx, runCur, outputDirectory, runDir>>

cVars == <<cPc, cFiles, cObserver, cTasks, cUploaded, cCause, cRead, progressCallbacks,
           cSent, cSocket, cSubs, cDelivered, cNotified>>

lVars == <<lPc, lVariant, lBad, lTasks, lDir, lIdx, lCur, lUpdated, lSeen>>

webVars == <<webPc, webUi, webConverting, webDownloads, webIds, webRun>>

aVars == <<aPc, aPromise, tempScripts, unlinks>>

vars == <<srvVars, qVars, aVars, rVars, cVars, lVars, webVars>>

(***************************************************************************)
(* Bounds of the model and values of the environment.                      *)
(***************************************************************************)
MaxUuid == 2        \* uuidv4() values the server may draw
MaxBatch == 2       \* longest files array of one request

\* properties that are not set on a JS object, one value per type
Absent == "absent"
AbsentPath == <<>>
AbsentMetadata == [absent |-> TRUE]
\* a request field that is missing
UndefinedName == <<"undefined">>

FileIds == {"f1", "f2"}
Sockets == {"s1"}

\* what POST /api/upload answered for two uploaded files (lines 290-298)
UploadedFiles ==
    { [id |-> "f1", filename |-> <<"u1-a.d">>, originalName |-> <<"a", ".", "d">>],
      [id |-> "f2", filename |-> <<"u2-a">>, originalName |-> <<"a">>] }

\* entries whose originalName or filename, which the handler takes from the
\* request body, holds path separators
PathNamedEntries ==
    { [id |-> "f1", filename |-> <<"u1-a.d">>,
       originalName |-> <<"s", "/", ".", ".", "/", "b", ".", "d">>],
      [id |-> "f2", filename |-> <<"t", "/", ".", ".", "/", "u2-a">>,
       originalName |-> <<"s", "/", "b", ".", "d">>] }

\* entries that lack a field
MalformedEntries ==
    { [id |-> "f1", filename |-> <<"u1-a.d">>, originalName |-> UndefinedName],
      [id |-> "f2", filename |-> UndefinedName, originalName |-> <<"a">>] }

\* the entries a request body may carry in its files array
Entries == UploadedFiles \cup PathNamedEntries \cup MalformedEntries

RECURSIVE SeqsUpTo(_, _)
SeqsUpTo(S, n) ==
    IF n = 0 THEN { <<>> }
    ELSE LET shorter == SeqsUpTo(S, n - 1)
         IN shorter \cup { Append(s, x) : s \in {t \in shorter : Len(t) = n - 1}, x \in S }

\* req.body: `files` is an array of entries, or something that is no array
Bodies == {[isArray |-> FALSE, files |-> <<>>]}
          \cup {[isArray |-> TRUE, files |-> s] : s \in SeqsUpTo(Entries, MaxBatch)}

(***************************************************************************)
(* Output naming: originalName.replace(/\.[^/.]+$/, '.md')                 *)
(***************************************************************************)
LastDot(s) ==
    IF \E i \in 1..Len(s) : s[i] = "."
    THEN CHOOSE i \in 1..Len(s) :
            s[i] = "." /\ \A k \in (i + 1)..Len(s) : s[k] # "."
    ELSE 0

ReplaceExtension(s) ==
    LET d == LastDot(s)
    IN IF d = 0 \/ d = Len(s) \/ (\E k \in (d + 1)..Len(s) : s[k] = "/")
       THEN s
       ELSE SubSeq(s, 1, d - 1) \o <<".", "m", "d">>

\* the segments of a path: split('/')
RECURSIVE SplitPath(_)
SplitPath(p) ==
    IF \E i \in 1..Len(p) : p[i] = "/"
    THEN LET i == CHOOSE k \in 1..Len(p) :
                      p[k] = "/" /\ \A m \in 1..(k - 1) : p[m] # "/"
         IN <<SubSeq(p, 1, i - 1)>> \o SplitPath(SubSeq(p, i + 1, Len(p)))
    ELSE <<p>>

\* normalizeString(path, allowAboveRoot): an empty segment and '.' are
\* dropped, '..' removes the segment before it; when there is none to remove
\* it is kept in a relative path (above) and dropped in an absolute one
RECURSIVE ResolveSegments(_, _, _)
ResolveSegments(segs, done, above) ==
    IF segs = <<>> THEN done
    ELSE LET seg == Head(segs)
             rest == Tail(segs)
         IN IF seg = <<>> \/ seg = <<".">>
            THEN ResolveSegments(rest, done, above)
            ELSE IF seg = <<".", ".">>
            THEN IF done # <<>> /\ done[Len(done)] # <<".", ".">>
                 THEN ResolveSegments(rest, SubSeq(done, 1, Len(done) - 1), above)
                 ELSE IF above
                 THEN ResolveSegments(rest, Append(done, seg), above)
                 ELSE ResolveSegments(rest, done, above)
            ELSE ResolveSegments(rest, Append(done, seg), above)

\* join('/')
RECURSIVE JoinSegments(_)
JoinSegments(segs) ==
    IF segs = <<>> THEN <<>>
    ELSE IF Len(segs) = 1 THEN segs[1]
    ELSE segs[1] \o <<"/">> \o JoinSegments(Tail(segs))

\* path.normalize(p) (posix): '' gives '.', a leading separator and a trailing
\* separator are kept, a path with no segment left is '/', './' or '.'
PathNormalize(p) ==
    IF p = <<>> THEN <<".">>
    ELSE LET isAbsolute == p[1] = "/"
             trailingSeparator == p[Len(p)] = "/"
             segs == ResolveSegments(SplitPath(p), <<>>, ~isAbsolute)
             body == JoinSegments(segs)
         IN IF segs = <<>>
            THEN IF isAbsolute THEN <<"/">>
                 ELSE IF trailingSeparator THEN <<".", "/">> ELSE <<".">>
            ELSE (IF isAbsolute THEN <<"/">> ELSE <<>>)
                 \o body
                 \o (IF trailingSeparator THEN <<"/">> ELSE <<>>)

\* path.join(dir, name): the arguments that are not empty are joined by a
\* separator and normalized
PathJoin(dir, name) ==
    IF name = <<>> THEN PathNormalize(dir)
    ELSE IF dir = <<>> THEN PathNormalize(name)
    ELSE PathNormalize(dir \o <<"/">> \o name)

\* process.cwd(): an absolute path, here of one segment
Cwd == <<"/", "cwd">>

\* server-simple.js lines 28-29
UPLOAD_DIR == PathJoin(Cwd, <<"uploads">>)
OUTPUT_DIR == PathJoin(Cwd, <<"outputs">>)

\* path.join(OUTPUT_DIR, `${file.id}-${outputFileName}`)
OutputPathOf(file) ==
    PathJoin(OUTPUT_DIR, <<file.id, "-">> \o ReplaceExtension(file.originalName))

\* path.join(UPLOAD_DIR, file.filename)
InputPathOf(file) == PathJoin(UPLOAD_DIR, file.filename)

(***************************************************************************)
(* Job records and conversion-progress events.                             *)
(***************************************************************************)
QueuedProgress == 0
ProcessingProgress == 10
CompletedProgress == 100
FailedProgress == 0

JobRecord(jobId, file, inputPath, outputPath) ==
    [jobId |-> jobId, fileId |-> file.id, inputPath |-> inputPath,
     outputPath |-> outputPath, originalName |-> file.originalName,
     status |-> "queued", progress |-> QueuedProgress,
     metadata |-> AbsentMetadata, error |-> Absent]

QueuedEvent(file, jobId) ==
    [fileId |-> file.id, jobId |-> jobId, status |-> "queued",
     progress |-> QueuedProgress, outputPath |-> AbsentPath, metadata |-> AbsentMetadata,
     error |-> Absent]

ProcessingRecord(rec) ==
    [rec EXCEPT !.status = "processing", !.progress = ProcessingProgress]

ProcessingEvent(fileId, jobId) ==
    [fileId |-> fileId, jobId |-> jobId, status |-> "processing",
     progress |-> ProcessingProgress, outputPath |-> AbsentPath, metadata |-> AbsentMetadata,
     error |-> Absent]

CompletedRecord(rec, result) ==
    [rec EXCEPT !.status = "completed", !.progress = CompletedProgress,
                !.outputPath = result.outputPath, !.metadata = result.metadata]

CompletedEvent(fileId, jobId, result) ==
    [fileId |-> fileId, jobId |-> jobId, status |-> "completed",
     progress |-> CompletedProgress, outputPath |-> result.outputPath,
     metadata |-> result.metadata, error |-> Absent]

FailedRecord(rec, message) ==
    [rec EXCEPT !.status = "failed", !.progress = FailedProgress, !.error = message]

FailedEvent(fileId, jobId, message) ==
    [fileId |-> fileId, jobId |-> jobId, status |-> "failed",
     progress |-> FailedProgress, outputPath |-> AbsentPath, metadata |-> AbsentMetadata,
     error |-> message]

(***************************************************************************)
(* The server state threaded through one run-to-completion segment.        *)
(***************************************************************************)
ServerState ==
    [jobs |-> jobs, active |-> activeConversions, calls |-> calls,
     uuid |-> nextUuid, oplog |-> <<>>, emitted |-> emitted, received |-> received,
     batchOf |-> batchOf, handles |-> <<>>, thrown |-> FALSE]

\* a jobId that is not fresh
Uuidv4Reused(st) == 1

\* uuidv4(): a value never returned before
Uuidv4(st) == st.uuid + 1

\* jobs.set(jobId, rec)
JobsSet(st, jobId, rec) ==
    [st EXCEPT
        !.jobs = [k \in (DOMAIN st.jobs) \cup {jobId} |->
                     IF k = jobId THEN rec ELSE st.jobs[k]],
        !.oplog = Append(st.oplog, [op |-> "set", jobId |-> jobId,
                                    status |-> rec.status, progress |-> rec.progress])]

\* io.emit('conversion-progress', ev): to every connected socket, whatever its rooms
IoEmit(st, ev) ==
    [st EXCEPT
        !.oplog = Append(st.oplog, [op |-> "emit", jobId |-> ev.jobId,
                                    status |-> ev.status, progress |-> ev.progress,
                                    event |-> ev]),
        !.emitted = [k \in (DOMAIN @) \cup {ev.jobId} |->
                        IF k \in DOMAIN @
                        THEN (IF k = ev.jobId THEN Append(@[k], ev) ELSE @[k])
                        ELSE <<ev>>],
        !.received = [s \in Sockets |->
                         IF s \in connected THEN Append(st.received[s], ev)
                         ELSE st.received[s]]]

\* processConversion run to its end inside the request handler, as if the
\* handler awaited it
ProcessConversionStartAwaited(st, jobId, fileId, inputPath, outputPath, start) ==
    LET s1 == JobsSet(st, jobId, ProcessingRecord(st.jobs[jobId]))
        s2 == IoEmit(s1, ProcessingEvent(fileId, jobId))
        s3 == JobsSet(s2, jobId, FailedRecord(s2.jobs[jobId], "engine error"))
        s4 == IoEmit(s3, FailedEvent(fileId, jobId, "engine error"))
    IN [s4 EXCEPT !.active = @ \ {jobId}]

\* how the synchronous part of the promise executor of convertWithMarkItDown
\* ends (lines 103-168): fs.writeFileSync throws (line 148), spawn throws
\* (line 151), or the handlers are registered and the process is awaited
ExecutorThrows == {"writeThrows", "spawnThrows"}

\* how an engine invocation starts: the executor throws, spawn fails to start
\* the process (python3 is missing, say) and the child emits 'error' from a
\* process.nextTick callback (lines 192-196), or the process runs
ExecutorStarts == {"started", "spawnError"} \cup ExecutorThrows

\* processConversion up to its first await: lines 202-219; the executor of
\* the promise it awaits has run, and `start` tells how it ended
ProcessConversionStart(st, jobId, fileId, inputPath, outputPath, start) ==
    LET s1 == JobsSet(st, jobId, ProcessingRecord(st.jobs[jobId]))
        s2 == IoEmit(s1, ProcessingEvent(fileId, jobId))
    IN [s2 EXCEPT !.calls = @ \cup {[jobId |-> jobId, fileId |-> fileId,
                                     inputPath |-> inputPath,
                                     outputPath |-> outputPath,
                                     start |-> start]}]

\* one iteration of `for (const file of files)`: lines 321-362
ConvertOne(st, file, req, start) ==
    LET jobId == Uuidv4(st)
        s0 == [st EXCEPT !.uuid = jobId]
    IN IF file.filename = UndefinedName \/ file.originalName = UndefinedName
       THEN [s0 EXCEPT !.thrown = TRUE]     \* TypeError, caught at line 368
       ELSE
         LET inputPath == InputPathOf(file)
             outputPath == OutputPathOf(file)
             s1 == JobsSet(s0, jobId, JobRecord(jobId, file, inputPath, outputPath))
             s2 == [s1 EXCEPT
                       !.active = @ \cup {jobId},
                       !.batchOf = [k \in (DOMAIN @) \cup {jobId} |->
                                       IF k = jobId THEN req ELSE @[k]],
                       !.handles = Append(@, [fileId |-> file.id, jobId |-> jobId,
                                              status |-> "queued"])]
             s3 == IoEmit(s2, QueuedEvent(file, jobId))
         IN ProcessConversionStart(s3, jobId, file.id, inputPath, outputPath, start)

RECURSIVE ConvertLoop(_, _, _, _, _)
ConvertLoop(st, files, i, req, starts) ==
    IF i > Len(files) \/ st.thrown THEN st
    ELSE ConvertLoop(ConvertOne(st, files[i], req, starts[i]), files, i + 1, req, starts)

NoRequest ==
    [n |-> -1, code |-> 0, fileIds |-> <<>>, handles |-> <<>>, created |-> {},
     starts |-> <<>>]

\* what the request carried, what the server answered and how the engine
\* invocation of each job it created started
RequestRecord(files, code, handles, created, starts) ==
    [n |-> Len(files), code |-> code,
     fileIds |-> [i \in 1..Len(files) |-> files[i].id],
     handles |-> handles, created |-> created, starts |-> starts]

Install(st) ==
    /\ jobs' = st.jobs
    /\ activeConversions' = st.active
    /\ calls' = st.calls
    /\ nextUuid' = st.uuid
    /\ oplog' = st.oplog
    /\ emitted' = st.emitted
    /\ received' = st.received
    /\ batchOf' = st.batchOf

\* res.json(...) at line 364, or res.status(500).json(...) at line 370
Respond(st, code) ==
    [st EXCEPT !.oplog = Append(@, [op |-> "respond", jobId |-> 0, status |-> "sent",
                                    progress |-> 0, code |-> code])]

\* app.post('/api/convert', ...): lines 311-372, up to the response; starts[i]
\* tells how the engine invocation of the i-th file starts
HandlerBody(files, req, starts) ==
    LET st == ConvertLoop(ServerState, files, 1, req, starts)
    IN Respond(st, IF st.thrown THEN 500 ELSE 200)

(***************************************************************************)
(* The conversion engine: convertWithMarkItDown, lines 102-198.            *)
(***************************************************************************)
Outcomes == {"success", "successFalse", "unparsable", "nonZeroExit", "spawnError",
             "writeError"}

\* the ways a started process can end
ProcessEnds == Outcomes \ {"spawnError"}

EngineMetadata == [title |-> "t", word_count |-> 1, char_count |-> 1]

\* what the python process does in each way the invocation can end: whether it
\* started, its exit code, whether its output is JSON, and the `success` and
\* `error` fields of that JSON (the script reports an exception of the engine,
\* or of writing the output file, as success False with the exception's text);
\* `wrote` tells whether the script's open(output_path, 'w') of lines 118-119
\* can have made the output file: it has when the script reports success; it
\* may have when the output does not parse (the JSON is printed after the
\* write), when the write raised after the file was opened, and when the
\* process ended with a non-zero code after the write
PythonProcess(outcome) ==
    CASE outcome = "success" ->
            [started |-> TRUE, code |-> 0, parses |-> TRUE, success |-> TRUE,
             error |-> Absent, wrote |-> {TRUE}]
      [] outcome = "successFalse" ->
            [started |-> TRUE, code |-> 0, parses |-> TRUE, success |-> FALSE,
             error |-> "engine error", wrote |-> {FALSE}]
      [] outcome = "writeError" ->
            [started |-> TRUE, code |-> 0, parses |-> TRUE, success |-> FALSE,
             error |-> "write error", wrote |-> {TRUE, FALSE}]
      [] outcome = "unparsable" ->
            [started |-> TRUE, code |-> 0, parses |-> FALSE, success |-> FALSE,
             error |-> Absent, wrote |-> {TRUE, FALSE}]
      [] outcome = "nonZeroExit" ->
            [started |-> TRUE, code |-> 1, parses |-> FALSE, success |-> FALSE,
             error |-> Absent, wrote |-> {TRUE, FALSE}]
      [] outcome = "spawnError" ->
            [started |-> FALSE, code |-> 1, parses |-> FALSE, success |-> FALSE,
             error |-> Absent, wrote |-> {FALSE}]
      [] outcome \in ExecutorThrows ->
            [started |-> FALSE, code |-> 1, parses |-> FALSE, success |-> FALSE,
             error |-> Absent, wrote |-> {FALSE}]

\* the message of the error the executor threw: the system error of
\* fs.writeFileSync, or the TypeError of spawn for an argument it refuses
ThrownMessage(outcome) ==
    IF outcome = "writeThrows"
    THEN "ENOENT: no such file or directory, open"
    ELSE "The argument 'args[1]' must be a string without null bytes"

\* an adapter that resolves whenever the process exits with code 0 and its
\* output parses
ConvertWithMarkItDownIgnoresSuccess(inputPath, outputPath, outcome) ==
    LET p == PythonProcess(outcome)
    IN IF outcome \in ExecutorThrows
       THEN [ok |-> FALSE, message |-> ThrownMessage(outcome)]
       ELSE IF ~p.started
       THEN [ok |-> FALSE, message |-> "Failed to start Python process"]
       ELSE IF p.code = 0
       THEN IF p.parses
            THEN [ok |-> TRUE, outputPath |-> outputPath, metadata |-> EngineMetadata]
            ELSE [ok |-> FALSE, message |-> "Failed to parse conversion result"]
       ELSE [ok |-> FALSE, message |-> "Python process failed with code"]

\* the value the promise settles with: the error the executor threw (lines
\* 148 and 151), or what the 'close' and 'error' handlers settle it with
\* (lines 169-196)
ConvertWithMarkItDown(inputPath, outputPath, outcome) ==
    LET p == PythonProcess(outcome)
    IN IF outcome \in ExecutorThrows
       THEN [ok |-> FALSE, message |-> ThrownMessage(outcome)]
       ELSE IF ~p.started
       THEN [ok |-> FALSE, message |-> "Failed to start Python process"]
       ELSE IF p.code = 0
       THEN IF p.parses
            THEN IF p.success
                 THEN [ok |-> TRUE, outputPath |-> outputPath,
                       metadata |-> EngineMetadata]
                 ELSE [ok |-> FALSE, message |-> p.error]
            ELSE [ok |-> FALSE, message |-> "Failed to parse conversion result"]
       ELSE [ok |-> FALSE, message |-> "Python process failed with code"]

\* a completion that is announced twice
ProcessConversionThenEmitsTwice(st, c, result) ==
    LET s1 == JobsSet(st, c.jobId, CompletedRecord(st.jobs[c.jobId], result))
        s2 == IoEmit(s1, CompletedEvent(c.fileId, c.jobId, result))
        s3 == IoEmit(s2, CompletedEvent(c.fileId, c.jobId, result))
    IN [s3 EXCEPT !.active = @ \ {c.jobId}, !.calls = @ \ {c}]

\* processConversion after the await resolved: lines 221-243
ProcessConversionThen(st, c, result) ==
    LET s1 == JobsSet(st, c.jobId, CompletedRecord(st.jobs[c.jobId], result))
        s2 == IoEmit(s1, CompletedEvent(c.fileId, c.jobId, result))
    IN [s2 EXCEPT !.active = @ \ {c.jobId}, !.calls = @ \ {c}]

\* a failure that also abandons the other conversions of the same request
ProcessConversionCatchAbortsBatch(st, c, message) ==
    LET s1 == JobsSet(st, c.jobId, FailedRecord(st.jobs[c.jobId], message))
        s2 == IoEmit(s1, FailedEvent(c.fileId, c.jobId, message))
    IN [s2 EXCEPT !.active = @ \ {c.jobId},
                  !.calls = {d \in @ : st.batchOf[d.jobId] # st.batchOf[c.jobId]}]

\* a failure recorded without telling the observers
ProcessConversionCatchSilent(st, c, message) ==
    LET s1 == JobsSet(st, c.jobId, FailedRecord(st.jobs[c.jobId], message))
    IN [s1 EXCEPT !.active = @ \ {c.jobId}, !.calls = @ \ {c}]

\* a failure written to every record of the same request
ProcessConversionCatchWritesBatch(st, c, message) ==
    LET s1 == JobsSet(st, c.jobId, FailedRecord(st.jobs[c.jobId], message))
        s2 == IoEmit(s1, FailedEvent(c.fileId, c.jobId, message))
    IN [s2 EXCEPT !.active = @ \ {c.jobId}, !.calls = @ \ {c},
                  !.jobs = [k \in DOMAIN @ |->
                               IF st.batchOf[k] = st.batchOf[c.jobId]
                               THEN FailedRecord(@[k], message) ELSE @[k]]]

\* a failure after which the job stays among the active conversions
ProcessConversionCatchKeepsActive(st, c, message) ==
    LET s1 == JobsSet(st, c.jobId, FailedRecord(st.jobs[c.jobId], message))
        s2 == IoEmit(s1, FailedEvent(c.fileId, c.jobId, message))
    IN [s2 EXCEPT !.calls = @ \ {c}]

\* processConversion's catch block: lines 244-268
ProcessConversionCatch(st, c, message) ==
    LET s1 == JobsSet(st, c.jobId, FailedRecord(st.jobs[c.jobId], message))
        s2 == IoEmit(s1, FailedEvent(c.fileId, c.jobId, message))
    IN [s2 EXCEPT !.active = @ \ {c.jobId}, !.calls = @ \ {c}]

\* the calls of cs in the order in which the handler made them
RECURSIVE InJobOrder(_)
InJobOrder(cs) ==
    IF cs = {} THEN <<>>
    ELSE LET c == CHOOSE x \in cs : \A d \in cs : x.jobId <= d.jobId
         IN <<c>> \o InJobOrder(cs \ {c})

\* the order in which the processConversion calls whose engine invocation did
\* not start resume. The promise of a thrown executor is rejected when the
\* executor runs; the promise of a failed spawn is rejected by the 'error'
\* handler, which Node calls from a process.nextTick callback. Ticks run
\* before the promise continuations when the handler itself was called from a
\* tick (the end of the request's body stream) and after them when it was
\* called from a promise continuation: ticksFirst tells which
RejectionOrder(cs, ticksFirst) ==
    IF ticksFirst THEN InJobOrder(cs)
    ELSE InJobOrder({c \in cs : c.start \in ExecutorThrows})
         \o InJobOrder({c \in cs : c.start \notin ExecutorThrows})

\* the catch blocks of the calls cs, one after the other
RECURSIVE RejectAll(_, _)
RejectAll(st, cs) ==
    IF cs = <<>> THEN st
    ELSE LET c == Head(cs)
             result == ConvertWithMarkItDown(c.inputPath, c.outputPath, c.start)
         IN RejectAll(ProcessConversionCatch(st, c, result.message), Tail(cs))

\* the segment of one POST /api/convert request: the handler of lines 311-372
\* with its response, then, before the server handles anything else, the
\* catch block of every processConversion whose engine invocation did not
\* start (lines 244-268)
PostConvertOf(body, starts, ticksFirst) ==
    LET files == body.files IN
    IF ~body.isArray \/ Len(files) = 0
    THEN
      /\ lastReq' = [NoRequest EXCEPT !.n = 0, !.code = 400]
      /\ lastReq' # lastReq
      /\ UNCHANGED <<jobs, activeConversions, calls, nextUuid, oplog, emitted, batchOf,
                     reqCount, connected, rooms, received, lateJoin>>
    ELSE
      /\ nextUuid + Len(files) <= MaxUuid
      /\ LET answered == HandlerBody(files, reqCount + 1, starts)
             due == {c \in answered.calls : c.start # "started"}
             st == RejectAll(answered, RejectionOrder(due, ticksFirst))
             created == (DOMAIN st.jobs) \ (DOMAIN jobs)
         IN /\ Install(st)
            /\ lastReq' = RequestRecord(files, IF st.thrown THEN 500 ELSE 200,
                                        IF st.thrown THEN <<>> ELSE st.handles,
                                        created,
                                        [i \in 1..Cardinality(created) |-> starts[i]])
      /\ reqCount' = reqCount + 1
      /\ UNCHANGED <<connected, rooms, lateJoin>>

PostConvert(body) ==
    \E starts \in [1..Len(body.files) -> ExecutorStarts], ticksFirst \in BOOLEAN :
        PostConvertOf(body, starts, ticksFirst)

\* the process of call c ends, its 'close' handler settles the promise and
\* processConversion resumes
EngineReturns(c, outcome) ==
    /\ c \in calls
    /\ LET result == ConvertWithMarkItDown(c.inputPath, c.outputPath, outcome)
           st == IF result.ok THEN ProcessConversionThen(ServerState, c, result)
                 ELSE ProcessConversionCatch(ServerState, c, result.message)
       IN Install(st)
    /\ UNCHANGED <<lastReq, reqCount, connected, rooms, lateJoin>>

(***************************************************************************)
(* Queries: GET /api/jobs, lines 418-435.                                  *)
(***************************************************************************)
IsTerminal(status) == status \in {"completed", "failed"}

\* Array.from(jobs.values()): the records in insertion order (uuids are drawn
\* in increasing order, so insertion order is jobId order)
RECURSIVE ValuesFrom(_, _)
ValuesFrom(js, ids) ==
    IF ids = {} THEN <<>>
    ELSE LET m == CHOOSE x \in ids : \A y \in ids : x <= y
         IN <<js[m]>> \o ValuesFrom(js, ids \ {m})

JobsValues(js) == ValuesFrom(js, DOMAIN js)

\* allJobs.filter(j => j.status === status).length
RECURSIVE CountStatus(_, _)
CountStatus(allJobs, status) ==
    IF allJobs = <<>> THEN 0
    ELSE (IF Head(allJobs).status = status THEN 1 ELSE 0)
         + CountStatus(Tail(allJobs), status)

\* the stats object of the response
JobsStatsBadFailed(allJobs) ==
    [total |-> Len(allJobs),
     queued |-> CountStatus(allJobs, "queued"),
     processing |-> CountStatus(allJobs, "processing"),
     completed |-> CountStatus(allJobs, "completed"),
     failed |-> CountStatus(allJobs, "error")]

JobsStats(allJobs) ==
    [total |-> Len(allJobs),
     queued |-> CountStatus(allJobs, "queued"),
     processing |-> CountStatus(allJobs, "processing"),
     completed |-> CountStatus(allJobs, "completed"),
     failed |-> CountStatus(allJobs, "failed")]

GetJobs == [jobs |-> JobsValues(jobs), stats |-> JobsStats(JobsValues(jobs))]

\* GET /api/health: lines 274-281
GetHealth ==
    [status |-> "healthy", activeJobs |-> Cardinality(activeConversions),
     totalJobs |-> Cardinality(DOMAIN jobs)]

(***************************************************************************)
(* Downloads: GET /api/download/:fileId, lines 375-398.                    *)
(***************************************************************************)
\* the characters of a file id
Chars(id) ==
    CASE id = "f1" -> <<"f", "1">>
      [] id = "f2" -> <<"f", "2">>
      [] id = "f3" -> <<"f", "3">>
      [] OTHER -> <<id>>

\* the ids a download may be requested for: the ids of the uploaded files, an
\* id no file has, and the first character of an id
DownloadIds == FileIds \cup {"f3", "f"}

\* the characters of a name that holds a file id
RECURSIVE Spell(_)
Spell(name) ==
    IF name = <<>> THEN <<>> ELSE Chars(Head(name)) \o Spell(Tail(name))

\* the entries fs.readdir(OUTPUT_DIR) lists for the file the engine wrote for
\* a job: the file itself, or the directory of OUTPUT_DIR it is under (made by
\* os.makedirs at line 116), and none when the path leaves OUTPUT_DIR
OutputFileOf(rec) ==
    LET segs == SplitPath(rec.outputPath)
        dir == SplitPath(OUTPUT_DIR)
        n == Len(dir)
    IN IF Len(segs) > n /\ SubSeq(segs, 1, n) = dir /\ segs[n + 1] # <<>>
       THEN {[name |-> Spell(segs[n + 1]), isDir |-> Len(segs) > n + 1]}
       ELSE {}

\* whether the script of a job can have written the job's output file: it has
\* for a completed job, it may have while the process runs, and for a failed
\* job it may have when the process ended in a way that can follow the write
MayHaveWritten(rec) ==
    CASE rec.status = "completed" -> {TRUE}
      [] rec.status = "processing" -> {TRUE, FALSE}
      [] rec.status = "failed" ->
            UNION { PythonProcess(o).wrote :
                      o \in {x \in Outcomes \cup ExecutorThrows :
                               LET r == ConvertWithMarkItDown(<<>>, <<>>, x)
                               IN ~r.ok /\ r.message = rec.error} }
      [] OTHER -> {FALSE}

\* the sets of jobs whose scripts have written their output files
WrittenSets ==
    LET sure == {j \in DOMAIN jobs : MayHaveWritten(jobs[j]) = {TRUE}}
        maybe == {j \in DOMAIN jobs : MayHaveWritten(jobs[j]) = {TRUE, FALSE}}
    IN {sure \cup m : m \in SUBSET maybe}

\* fs.readdir(OUTPUT_DIR) when the scripts of the jobs in `written` have
\* written their output files
OutputDir(written) ==
    UNION { { [name |-> e.name, isDir |-> e.isDir, jobId |-> j] :
                e \in OutputFileOf(jobs[j]) } : j \in written }

\* file.startsWith(fileId)
StartsWith(name, prefix) ==
    Len(name) >= Len(prefix) /\ SubSeq(name, 1, Len(prefix)) = prefix

\* the answers the handler can give when the directory is `dir`:
\* `files.find(file => file.startsWith(fileId))` takes the first match in
\* directory order, 404 when there is none; res.download fails on a directory
\* and the answer is 500
DownloadFrom(dir, fileId) ==
    LET matches == {f \in dir : StartsWith(f.name, Chars(fileId))}
    IN IF matches = {}
       THEN {[code |-> 404, name |-> <<>>, jobId |-> 0]}
       ELSE {[code |-> IF f.isDir THEN 500 ELSE 200, name |-> f.name,
              jobId |-> f.jobId] : f \in matches}

\* the answers the handler can give
Download(fileId) ==
    UNION {DownloadFrom(OutputDir(w), fileId) : w \in WrittenSets}

(***************************************************************************)
(* Sockets: io.on('connection'), lines 438-454.                            *)
(***************************************************************************)
SocketConnect(s) ==
    /\ s \notin connected
    /\ connected' = connected \cup {s}
    /\ UNCHANGED <<jobs, activeConversions, calls, nextUuid, oplog, emitted, lastReq,
                   batchOf, reqCount, rooms, received, lateJoin>>

\* a disconnected socket has left all its rooms
SocketDisconnect(s) ==
    /\ s \in connected
    /\ connected' = connected \ {s}
    /\ rooms' = {m \in rooms : m[1] # s}
    /\ lateJoin' = {m \in lateJoin : m.socket # s}
    /\ received' = [received EXCEPT ![s] = <<>>]
    /\ UNCHANGED <<jobs, activeConversions, calls, nextUuid, oplog, emitted, lastReq,
                   batchOf, reqCount>>

\* socket.on('join-file', fileId): joins the room and sends nothing
JoinFile(s, fileId) ==
    /\ s \in connected
    /\ <<s, fileId>> \notin rooms
    /\ rooms' = rooms \cup {<<s, fileId>>}
    /\ lateJoin' = IF \E j \in DOMAIN jobs :
                         jobs[j].fileId = fileId /\ IsTerminal(jobs[j].status)
                   THEN lateJoin \cup {[socket |-> s, fileId |-> fileId,
                                        at |-> Len(received[s])]}
                   ELSE lateJoin
    /\ UNCHANGED <<jobs, activeConversions, calls, nextUuid, oplog, emitted, lastReq,
                   batchOf, reqCount, connected, received>>

\* socket.on('leave-file', fileId)
LeaveFile(s, fileId) ==
    /\ <<s, fileId>> \in rooms
    /\ rooms' = rooms \ {<<s, fileId>>}
    /\ lateJoin' = {m \in lateJoin : ~(m.socket = s /\ m.fileId = fileId)}
    /\ UNCHANGED <<jobs, activeConversions, calls, nextUuid, oplog, emitted, lastReq,
                   batchOf, reqCount, connected, received>>

(***************************************************************************)
(* The in-memory server.                                                   *)
(***************************************************************************)
InitServer ==
    /\ jobs = <<>>
    /\ activeConversions = {}
    /\ calls = {}
    /\ nextUuid = 0
    /\ oplog = <<>>
    /\ emitted = <<>>
    /\ lastReq = NoRequest
    /\ batchOf = <<>>
    /\ reqCount = 0
    /\ connected = {}
    /\ rooms = {}
    /\ received = [s \in Sockets |-> <<>>]
    /\ lateJoin = {}

JobIds == 1..MaxUuid

ServerOnly == UNCHANGED <<qVars, aVars, rVars, cVars, lVars, webVars>>

Next ==
    \/ \E body \in Bodies : PostConvert(body) /\ ServerOnly
    \/ \E c \in calls, o \in ProcessEnds : EngineReturns(c, o) /\ ServerOnly

\* every process that was started eventually ends
EngineFairness ==
    \A j \in JobIds :
        WF_vars(\E c \in calls :
                    /\ c.jobId = j
                    /\ \E o \in ProcessEnds : EngineReturns(c, o)
                    /\ ServerOnly)

NextSocket ==
    \/ \E body \in Bodies : PostConvert(body) /\ ServerOnly
    \/ \E c \in calls, o \in ProcessEnds : EngineReturns(c, o) /\ ServerOnly
    \/ \E s \in Sockets : SocketConnect(s) /\ ServerOnly
    \/ \E s \in Sockets : SocketDisconnect(s) /\ ServerOnly
    \/ \E s \in Sockets, f \in FileIds : JoinFile(s, f) /\ ServerOnly
    \/ \E s \in Sockets, f \in FileIds : LeaveFile(s, f) /\ ServerOnly

(***************************************************************************)
(* The queue-backed server (server.js): the POST /api/convert handler      *)
(* awaits conversionQueue.add for every file, and the queue worker         *)
(* (conversionQueue.process, concurrency 1) runs beside it.                *)
(***************************************************************************)
MaxQJobs == 2       \* jobs added to conversionQueue

\* a conversion-progress event of server.js; `job` is not part of the payload,
\* it names the queue job the event is about
QEvent(job, fileId, status, progress, outputPath, metadata, error) ==
    [job |-> job, fileId |-> fileId, status |-> status, progress |-> progress,
     outputPath |-> outputPath, metadata |-> metadata, error |-> error]

QNoResponse == [code |-> 0, jobs |-> <<>>]

\* the catch block of the handler: lines 332-335
QHandlerCatch ==
    /\ qResp' = [code |-> 500, jobs |-> <<>>]
    /\ hPc' = "idle"
    /\ hFiles' = <<>>
    /\ hIdx' = 0
    /\ hHandles' = <<>>
    /\ hJob' = 0
    /\ UNCHANGED qJobs

\* lines 301-312: the paths of hFiles[i] are computed and conversionQueue.add is
\* called; addOk tells whether Redis stores the job. A TypeError of the path
\* computation is thrown in this segment; when Redis does not store the job
\* the promise of add is rejected, and the handler stays suspended at the
\* await until the rejection reaches it (hJob = 0 meanwhile)
QIssueAdd(files, i, handles, addOk) ==
    LET file == files[i] IN
    IF file.filename = UndefinedName \/ file.originalName = UndefinedName
    THEN QHandlerCatch
    ELSE IF ~addOk
    THEN /\ hPc' = "awaitAdd"
         /\ hFiles' = files
         /\ hIdx' = i
         /\ hHandles' = handles
         /\ hJob' = 0
         /\ UNCHANGED <<qJobs, qResp>>
    ELSE LET id == Len(qJobs) + 1
         IN /\ qJobs' = Append(qJobs,
                          [data |-> [fileId |-> file.id,
                                     inputPath |-> InputPathOf(file),
                                     outputPath |-> OutputPathOf(file),
                                     originalName |-> file.originalName],
                           state |-> "waiting", progress |-> 0])
            /\ hPc' = "awaitAdd"
            /\ hFiles' = files
            /\ hIdx' = i
            /\ hHandles' = handles
            /\ hJob' = id
            /\ UNCHANGED qResp

\* app.post('/api/convert', ...) up to its first await: lines 290-312
QPostConvert(body, addOk) ==
    /\ hPc = "idle"
    /\ IF ~body.isArray \/ Len(body.files) = 0
       THEN /\ qResp' = [code |-> 400, jobs |-> <<>>]
            /\ qResp' # qResp
            /\ UNCHANGED <<qJobs, hPc, hFiles, hIdx, hHandles, hJob>>
       ELSE /\ Len(qJobs) + Len(body.files) <= MaxQJobs
            /\ QIssueAdd(body.files, 1, <<>>, addOk)
    /\ UNCHANGED <<qEvents, wPc, wJob>>

\* the handler resumes after `await conversionQueue.add`: lines 314-331, or
\* its catch block when the add was rejected
QResumeAfterAdd(addOk) ==
    /\ hPc = "awaitAdd"
    /\ LET file == hFiles[hIdx]
           handles == Append(hHandles,
                             [fileId |-> file.id, jobId |-> hJob, status |-> "queued"])
       IN IF hJob = 0
          THEN QHandlerCatch /\ UNCHANGED qEvents
          ELSE
          /\ qEvents' = Append(qEvents,
                            QEvent(hJob, file.id, "queued", QueuedProgress,
                                   AbsentPath, AbsentMetadata, Absent))
          /\ IF hIdx < Len(hFiles)
             THEN QIssueAdd(hFiles, hIdx + 1, handles, addOk)
             ELSE /\ qResp' = [code |-> 200, jobs |-> handles]
                  /\ hPc' = "idle"
                  /\ hFiles' = <<>>
                  /\ hIdx' = 0
                  /\ hHandles' = <<>>
                  /\ hJob' = 0
                  /\ UNCHANGED qJobs
    /\ UNCHANGED <<wPc, wJob>>

\* the worker's catch block, lines 145-157: the failed event is emitted and
\* the error is thrown again, so the queue fails the job; js holds the jobs as
\* the segment has left them so far
WorkerCatch(js, message) ==
    /\ qEvents' = Append(qEvents,
                         QEvent(wJob, qJobs[wJob].data.fileId, "failed", FailedProgress,
                                AbsentPath, AbsentMetadata, message))
    /\ qJobs' = [js EXCEPT ![wJob].state = "failed"]
    /\ wPc' = "idle"
    /\ wJob' = 0

\* the queue moves the oldest waiting job to active and calls the processor
\* registered at line 121, which calls job.progress(10). The processor is
\* registered without a name and every job is added under the name 'convert'
\* (line 306); the queue library is not part of the source, and whether it
\* hands such a job to that processor is its decision: with `handled` false
\* it fails the job without calling the processor, and nothing is emitted,
\* for server.js listens to no event of the queue
WorkerTake(handled) ==
    /\ wPc = "idle"
    /\ \E j \in 1..Len(qJobs) :
          /\ qJobs[j].state = "waiting"
          /\ \A k \in 1..(j - 1) : qJobs[k].state # "waiting"
          /\ IF handled
             THEN /\ qJobs' = [qJobs EXCEPT ![j].state = "active"]
                  /\ wJob' = j
                  /\ wPc' = "progress10"
             ELSE /\ qJobs' = [qJobs EXCEPT ![j].state = "failed"]
                  /\ UNCHANGED <<wJob, wPc>>
    /\ UNCHANGED <<qEvents, hPc, hFiles, hIdx, hHandles, hJob, qResp>>

\* `await job.progress(10)` settles (line 126) and convertWithMarkItDown is
\* called (line 129); `start` tells how its engine invocation starts: when it
\* does not, the promise is rejected before another task runs and the catch
\* block follows in this segment
WorkerProgress10(ok, start) ==
    /\ wPc = "progress10"
    /\ LET js == [qJobs EXCEPT ![wJob].progress = 10]
           d == qJobs[wJob].data
       IN IF ~ok
          THEN WorkerCatch(qJobs, "redis error")
          ELSE IF start = "started"
          THEN /\ qJobs' = js
               /\ wPc' = "convert"
               /\ UNCHANGED <<qEvents, wJob>>
          ELSE WorkerCatch(js, ConvertWithMarkItDown(d.inputPath, d.outputPath,
                                                     start).message)
    /\ UNCHANGED <<hPc, hFiles, hIdx, hHandles, hJob, qResp>>

\* the process ends and `await convertWithMarkItDown(...)` settles (line 129);
\* then job.progress(90) is called
WorkerConvert(outcome) ==
    /\ wPc = "convert"
    /\ LET d == qJobs[wJob].data
           result == ConvertWithMarkItDown(d.inputPath, d.outputPath, outcome)
       IN IF result.ok
          THEN /\ wPc' = "progress90"
               /\ UNCHANGED <<qJobs, qEvents, wJob>>
          ELSE WorkerCatch(qJobs, result.message)
    /\ UNCHANGED <<hPc, hFiles, hIdx, hHandles, hJob, qResp>>

\* `await job.progress(90)` settles (line 131); the completed event is emitted and
\* job.progress(100) is called (lines 134-142)
WorkerProgress90(ok) ==
    /\ wPc = "progress90"
    /\ IF ok
       THEN LET d == qJobs[wJob].data
                result == ConvertWithMarkItDown(d.inputPath, d.outputPath, "success")
            IN /\ qJobs' = [qJobs EXCEPT ![wJob].progress = 90]
               /\ qEvents' = Append(qEvents,
                                    QEvent(wJob, d.fileId, "completed", CompletedProgress,
                                           result.outputPath, result.metadata, Absent))
               /\ wPc' = "progress100"
               /\ UNCHANGED wJob
       ELSE WorkerCatch(qJobs, "redis error")
    /\ UNCHANGED <<hPc, hFiles, hIdx, hHandles, hJob, qResp>>

\* `await job.progress(100)` settles (line 142); the processor returns (line 144)
WorkerProgress100(ok) ==
    /\ wPc = "progress100"
    /\ IF ok
       THEN /\ qJobs' = [qJobs EXCEPT ![wJob].progress = 100, ![wJob].state = "completed"]
            /\ wPc' = "idle"
            /\ wJob' = 0
            /\ UNCHANGED qEvents
       ELSE WorkerCatch(qJobs, "redis error")
    /\ UNCHANGED <<hPc, hFiles, hIdx, hHandles, hJob, qResp>>

InitQueue ==
    /\ qJobs = <<>>
    /\ qEvents = <<>>
    /\ hPc = "idle"
    /\ hFiles = <<>>
    /\ hIdx = 0
    /\ hHandles = <<>>
    /\ hJob = 0
    /\ qResp = QNoResponse
    /\ wPc = "idle"
    /\ wJob = 0

QueueOnly == UNCHANGED <<srvVars, aVars, rVars, cVars, lVars, webVars>>

NextQueue ==
    \/ \E body \in Bodies, addOk \in BOOLEAN : QPostConvert(body, addOk) /\ QueueOnly
    \/ \E addOk \in BOOLEAN : QResumeAfterAdd(addOk) /\ QueueOnly
    \/ \E handled \in BOOLEAN : WorkerTake(handled) /\ QueueOnly
    \/ \E ok \in BOOLEAN, start \in ExecutorStarts : WorkerProgress10(ok, start) /\ QueueOnly
    \/ \E o \in ProcessEnds : WorkerConvert(o) /\ QueueOnly
    \/ \E ok \in BOOLEAN : WorkerProgress90(ok) /\ QueueOnly
    \/ \E ok \in BOOLEAN : WorkerProgress100(ok) /\ QueueOnly

(***************************************************************************)
(* The local renderer: App.tsx lines 1-176 with the WebFileHandler of      *)
(* webFileHandler.ts lines 1-155.                                          *)
(***************************************************************************)
MaxTaskIds == 3     \* task ids selectFiles may hand out

\* names of the files the user may pick
PickedNames == { <<"a", ".", "D", "o", "c", "x">>, <<"n", ".", "t">> }

UpperCaseLetters ==
    <<"A", "B", "C", "D", "E", "F", "G", "H", "I", "J", "K", "L", "M",
      "N", "O", "P", "Q", "R", "S", "T", "U", "V", "W", "X", "Y", "Z">>

LowerCaseLetters ==
    <<"a", "b", "c", "d", "e", "f", "g", "h", "i", "j", "k", "l", "m",
      "n", "o", "p", "q", "r", "s", "t", "u", "v", "w", "x", "y", "z">>

\* whether ch.toLowerCase() is the character c, where c is a lower-case ASCII
\* letter, a digit or '.': ch is c, its upper-case letter, or the Kelvin sign
\* (written as its code point) for k. No other character has an ASCII lower
\* case, and capital I with a dot above becomes two characters
LowerCaseIs(ch, c) ==
    \/ ch = c
    \/ \E i \in 1..26 : ch = UpperCaseLetters[i] /\ c = LowerCaseLetters[i]
    \/ ch = "U+212A" /\ c = "k"

\* whether a character of the input matches a character of a pattern under
\* the flag i (no flag u): an ASCII letter matches its other case, and no
\* character outside ASCII matches an ASCII one
MatchesIgnoringCase(ch, c) ==
    \/ ch = c
    \/ \E i \in 1..26 : /\ {ch, c} = {UpperCaseLetters[i], LowerCaseLetters[i]}

\* fileName.replace(/\.docx$/i, '.md')
ReplaceDocx(name) ==
    LET n == Len(name)
        pattern == <<".", "d", "o", "c", "x">>
    IN IF n >= 5 /\ \A i \in 1..5 : MatchesIgnoringCase(name[n - 5 + i], pattern[i])
       THEN SubSeq(name, 1, n - 5) \o <<".", "m", "d">>
       ELSE name

\* name.toLowerCase().endsWith(suffix) for a suffix of lower-case ASCII
\* letters, digits and '.': the last characters of the name are those of the
\* suffix once lowered
EndsWith(name, suffix) ==
    LET n == Len(name)
        m == Len(suffix)
    IN /\ n >= m
       /\ \A i \in 1..m : LowerCaseIs(name[n - m + i], suffix[i])

\* getDefaultOutputDirectory(): line 77
OutputDirectory == <<"Downloads", "/", "Converted_Markdown">>

\* what prompt('Enter output directory name:') may return: the empty sequence
\* is the empty string and null, which the handler ignores alike
PromptedDirectories == { <<>>, <<"o">> }

\* the task selectFiles makes for a picked file: lines 23-31
NewTask(id, name) ==
    [id |-> id, inputPath |-> name, outputPath |-> AbsentPath, fileName |-> name,
     status |-> "pending", errorMessage |-> Absent, file |-> TRUE]

\* the folder the user may pick: the first part of file.webkitRelativePath
PickedFolder == <<"s", "/">>

\* the task selectFolder makes for a file of the picked folder: lines 54-62
NewFolderTask(id, name) ==
    [NewTask(id, name) EXCEPT !.inputPath = PickedFolder \o name]

\* handleProgress: setTasks(prev => prev.map(t => t.id === task.id ? task : t))
HandleProgress(ui, task) ==
    [i \in 1..Len(ui) |-> IF ui[i].id = task.id THEN task ELSE ui[i]]

\* the catch block of the loop: lines 108-111
TaskFailed(updatedTask, message) ==
    [updatedTask EXCEPT !.status = "failed", !.errorMessage = message]

\* convertFiles from the top of iteration i to its next await, or to its return:
\* lines 87-99 and 113-117
RECURSIVE RunFrom(_, _, _)
RunFrom(ui, rtasks, i) ==
    IF i > Len(rtasks)
    THEN [ui |-> ui, idx |-> 0, cur |-> <<>>]
    ELSE LET updatedTask == [rtasks[i] EXCEPT !.status = "processing"]
             ui1 == HandleProgress(ui, updatedTask)
         IN IF ~rtasks[i].file
            THEN RunFrom(HandleProgress(ui1, TaskFailed(updatedTask, "File not available")),
                         rtasks, i + 1)
            ELSE [ui |-> ui1, idx |-> i, cur |-> <<updatedTask>>]

InstallRun(r) ==
    /\ tasks' = r.ui
    /\ runIdx' = r.idx
    /\ runCur' = r.cur
    /\ isConverting' = (r.idx # 0)

\* handleAddFiles: lines 33-40
AddFiles(names) ==
    /\ taskIds + Len(names) <= MaxTaskIds
    /\ tasks' = tasks \o [i \in 1..Len(names) |-> NewTask(taskIds + i, names[i])]
    /\ taskIds' = taskIds + Len(names)
    /\ UNCHANGED <<isConverting, runTasks, runIdx, runCur, outputDirectory, runDir>>

\* handleAddFolder: lines 42-49; selectFolder keeps the files of the folder
\* whose lower-cased name ends in .docx (webFileHandler.ts lines 51-53)
AddFolder(names) ==
    LET docxFiles == SelectSeq(names, LAMBDA n : EndsWith(n, <<".", "d", "o", "c", "x">>))
    IN /\ taskIds + Len(docxFiles) <= MaxTaskIds
       /\ tasks' = tasks \o [i \in 1..Len(docxFiles) |->
                                NewFolderTask(taskIds + i, docxFiles[i])]
       /\ taskIds' = taskIds + Len(docxFiles)
       /\ UNCHANGED <<isConverting, runTasks, runIdx, runCur, outputDirectory, runDir>>

\* handleRemoveTask: lines 51-53
RemoveTask(id) ==
    /\ \E i \in 1..Len(tasks) : tasks[i].id = id
    /\ tasks' = SelectSeq(tasks, LAMBDA t : t.id # id)
    /\ UNCHANGED <<isConverting, taskIds, runTasks, runIdx, runCur, outputDirectory, runDir>>

\* handleClearAll: lines 55-58
ClearAll ==
    /\ tasks # <<>>
    /\ tasks' = <<>>
    /\ UNCHANGED <<isConverting, taskIds, runTasks, runIdx, runCur, outputDirectory, runDir>>

\* handleSelectOutputDirectory: lines 60-70
HandleSelectOutputDirectory(directory) ==
    /\ outputDirectory' = IF directory # <<>> THEN directory ELSE outputDirectory
    /\ UNCHANGED <<tasks, isConverting, taskIds, runTasks, runIdx, runCur, runDir>>

\* `tasks.map(task => ({ ...task, status: 'pending' }))`: line 80
ResetTasks(ts) == [i \in 1..Len(ts) |-> [ts[i] EXCEPT !.status = "pending"]]

\* handleStartConversion up to the first await of convertFiles: lines 72-88
HandleStartConversion ==
    /\ ~(Len(tasks) = 0 \/ isConverting)
    /\ LET resetTasks == ResetTasks(tasks)
       IN /\ runTasks' = resetTasks
          /\ InstallRun(RunFrom(resetTasks, resetTasks, 1))
    /\ runDir' = IF runIdx' = 0 THEN <<>> ELSE outputDirectory
    /\ UNCHANGED <<taskIds, outputDirectory>>

\* what the awaited conversion of one file can do
ConvertOutcomes == {"converted", "readError", "downloadError"}

\* `await this.convertSingleFile(task.file)` settles and the loop goes on to the
\* next await or to the end of the run: lines 99-117 and App.tsx lines 89-93
ConvertSingleFileReturns(outcome) ==
    /\ runIdx # 0
    /\ LET task == runTasks[runIdx]
           updatedTask == runCur[1]
           named == [updatedTask EXCEPT
                        \* `${outputDir}/${outputFileName}`
                        !.outputPath = runDir \o <<"/">> \o ReplaceDocx(task.fileName)]
           final == CASE outcome = "converted" -> [named EXCEPT !.status = "completed"]
                      [] outcome = "readError" ->
                            TaskFailed(updatedTask, "Failed to convert file")
                      [] outcome = "downloadError" ->
                            TaskFailed(named, "download error")
       IN InstallRun(RunFrom(HandleProgress(tasks, final), runTasks, runIdx + 1))
    /\ runTasks' = IF runIdx' = 0 THEN <<>> ELSE runTasks
    /\ runDir' = IF runIdx' = 0 THEN <<>> ELSE runDir
    /\ UNCHANGED <<taskIds, outputDirectory>>

InitRenderer ==
    /\ tasks = <<>>
    /\ isConverting = FALSE
    /\ taskIds = 0
    /\ runTasks = <<>>
    /\ runIdx = 0
    /\ runCur = <<>>
    \* the effect of lines 17-20 has run
    /\ outputDirectory = OutputDirectory
    /\ runDir = <<>>

RendererOnly == UNCHANGED <<srvVars, qVars, aVars, cVars, lVars, webVars>>

NextRenderer ==
    \/ \E names \in SeqsUpTo(PickedNames, MaxBatch) \ {<<>>} :
          AddFiles(names) /\ RendererOnly
    \/ \E names \in SeqsUpTo(PickedNames, MaxBatch) \ {<<>>} :
          AddFolder(names) /\ RendererOnly
    \/ \E id \in 1..MaxTaskIds : RemoveTask(id) /\ RendererOnly
    \/ ClearAll /\ RendererOnly
    \/ \E directory \in PromptedDirectories :
          HandleSelectOutputDirectory(directory) /\ RendererOnly
    \/ HandleStartConversion /\ RendererOnly
    \/ \E o \in ConvertOutcomes : ConvertSingleFileReturns(o) /\ RendererOnly

(***************************************************************************)
(* WebAPIClient.convertFiles (apiClient.ts lines 241-326) against the      *)
(* in-memory server: upload, start of the conversions, progress events.    *)
(***************************************************************************)
UploadedProgress == 30
ClientQueuedProgress == 35

\* The progress of a task in the browser is a floating-point number:
\* `progress * 0.3` and `updatedTask.progress * 0.7 + 30` of whole percentages
\* are multiples of one tenth. The tasks of the clients and of the web renderer
\* hold their progress in tenths of a percent, so that these products are exact;
\* Tenths(p) is the percentage p.
Tenths(p) == p * 10

ClientSocket == "s1"

\* the files a caller may pass; mimeOk: the type is in allowedMimes,
\* tooLarge: the file is longer than limits.fileSize
ClientFiles == { [name |-> <<"a", ".", "d">>, mimeOk |-> TRUE, tooLarge |-> FALSE],
                 [name |-> <<"x">>, mimeOk |-> FALSE, tooLarge |-> FALSE] }

\* a file of an allowed type that is longer than limits.fileSize
LargeFile == [name |-> <<"a", ".", "d">>, mimeOk |-> TRUE, tooLarge |-> TRUE]

\* `task-${Date.now()}-${index}`
TaskIdAt == <<"task-1", "task-2", "task-3">>
\* the uuids POST /api/upload draws for ids and stored names
FileIdAt == <<"f1", "f2", "f3">>
StoredNameAt == <<"u1", "u2", "u3">>

\* the callback convertFiles registers, and the observers outside it
TaskCallback == "task"
Observers == {"o1", "o2"}

MaxSent == 3        \* messages the observers may leave unhandled on the socket

\* socket.emit(type, fileId)
SocketMessage(type, fileId) == [type |-> type, fileId |-> fileId]

\* progressCallbacks.set(key, callback) for every key of keys
MapSetAll(map, keys, callback) ==
    [k \in (DOMAIN map) \cup keys |-> IF k \in keys THEN callback ELSE map[k]]

\* fileFilter of multer: server-simple.js lines 76-98
FileFilter(file) == file.mimeOk

\* the entry of the upload response for the i-th file: server-simple.js lines 290-298
UploadedFile(i, file) ==
    [id |-> FileIdAt[i], filename |-> <<StoredNameAt[i]>>, originalName |-> file.name]

\* upload.array('files', 10): server-simple.js line 284
MaxUploadFiles == 10

\* the error middleware: server-simple.js lines 457-467
ErrorMiddleware(error) ==
    IF error = "LIMIT_FILE_SIZE"
    THEN [code |-> 400, error |-> "File too large", files |-> <<>>]
    ELSE [code |-> 500, error |-> "Internal server error", files |-> <<>>]

\* what multer passes to next() for the request, "none" when it accepts every
\* file. The parts are read in order and the first error ends the request:
\* fileFilter refuses a part at its header, a part that passes it is cut off
\* at limits.fileSize, and a part after the tenth of upload.array('files', 10)
\* is an unexpected file
MulterError(files) ==
    LET refused(i) == \/ i > MaxUploadFiles
                      \/ ~FileFilter(files[i])
                      \/ files[i].tooLarge
    IN IF \A i \in 1..Len(files) : ~refused(i) THEN "none"
       ELSE LET i == CHOOSE k \in 1..Len(files) :
                         refused(k) /\ \A m \in 1..(k - 1) : ~refused(m)
            IN IF i > MaxUploadFiles THEN "LIMIT_UNEXPECTED_FILE"
               ELSE IF ~FileFilter(files[i]) THEN "Unsupported file type"
               ELSE "LIMIT_FILE_SIZE"

\* POST /api/upload: an error of multer goes to the error middleware, a
\* request without files is answered 400, and the files of any other are
\* listed: server-simple.js lines 284-308
PostUpload(files) ==
    IF MulterError(files) # "none" THEN ErrorMiddleware(MulterError(files))
    ELSE IF Len(files) = 0
    THEN [code |-> 400, error |-> "No files uploaded", files |-> <<>>]
    ELSE [code |-> 200, error |-> Absent,
          files |-> [i \in 1..Len(files) |-> UploadedFile(i, files[i])]]

\* lines 246-253 and 257-262
InitialTask(i, file, observer) ==
    [id |-> TaskIdAt[i], fileName |-> file.name,
     status |-> IF observer THEN "uploading" ELSE "pending", progress |-> 0,
     jobId |-> 0, outputPath |-> AbsentPath, errorMessage |-> Absent,
     metadata |-> AbsentMetadata]

\* the catch block of convertFiles: lines 316-325
AllTasksFailed(ts, message) ==
    [i \in 1..Len(ts) |-> [ts[i] EXCEPT !.status = "failed", !.errorMessage = message]]

\* `if (onProgress) onProgress(task)` for the tasks at idxs of ts
Notified(observer, ts, idxs) ==
    IF observer THEN cNotified \cup {[index |-> i, id |-> ts[i].id] : i \in idxs}
    ELSE cNotified

ConvertFilesThrows(message, cause) ==
    /\ cTasks' = AllTasksFailed(cTasks, message)
    /\ cNotified' = Notified(cObserver, cTasks, 1..Len(cTasks))
    /\ cPc' = "threw"
    /\ cCause' = cause

\* convertFiles up to `await this.uploadFiles(...)`: lines 241-264
ClientConvertFiles(files, observer) ==
    /\ cPc = "idle"
    /\ cFiles' = files
    /\ cObserver' = observer
    /\ cTasks' = [i \in 1..Len(files) |-> InitialTask(i, files[i], observer)]
    /\ cPc' = "upload"
    /\ cNotified' = Notified(observer, cTasks', 1..Len(files))
    /\ UNCHANGED <<cUploaded, cCause, cRead, progressCallbacks, cSent, cSocket, cSubs, cDelivered>>

\* onUploadProgress: lines 131-140 and 266-273
UploadProgress(percent) ==
    /\ cPc = "upload"
    /\ cTasks' = [i \in 1..Len(cTasks) |->
                     IF cTasks[i].status = "uploading"
                     THEN [cTasks[i] EXCEPT
                             \* Math.min(progress * 0.3, 30)
                             !.progress = IF percent * 3 < Tenths(30)
                                          THEN percent * 3 ELSE Tenths(30)]
                     ELSE cTasks[i]]
    \* progressEvent.loaded grows, so a later event reports no less than an earlier one
    /\ \A i \in 1..Len(cTasks) : cTasks'[i].progress >= cTasks[i].progress
    /\ cNotified' = Notified(cObserver, cTasks,
                             {i \in 1..Len(cTasks) : cTasks[i].status = "uploading"})
    /\ UNCHANGED <<cPc, cFiles, cObserver, cUploaded, cCause, cRead, progressCallbacks,
                   cSent, cSocket, cSubs, cDelivered>>

\* the upload request settles; on success the tasks take the uploaded ids and
\* POST /api/convert is sent: lines 141-151 and 278-288
UploadSettles(network) ==
    /\ cPc = "upload"
    /\ LET resp == PostUpload(cFiles)
       IN IF network /\ resp.code = 200
          THEN /\ cUploaded' = resp.files
               /\ cTasks' = [i \in 1..Len(cTasks) |->
                                IF i <= Len(resp.files)
                                THEN [cTasks[i] EXCEPT !.id = resp.files[i].id,
                                                       !.status = "uploaded",
                                                       !.progress = Tenths(UploadedProgress)]
                                ELSE cTasks[i]]
               /\ cNotified' = Notified(cObserver, cTasks',
                                        {i \in 1..Len(cTasks) : i <= Len(resp.files)})
               /\ cPc' = "convertSent"
               /\ UNCHANGED cCause
          ELSE /\ ConvertFilesThrows("Failed to upload files",
                                     IF ~network THEN "network"
                                     ELSE IF resp.error = "No files uploaded" THEN "noFiles"
                                     ELSE IF resp.error = "File too large" THEN "tooLarge"
                                     ELSE "fileFilter")
               /\ UNCHANGED cUploaded
    /\ UNCHANGED <<cFiles, cObserver, cRead, progressCallbacks, cSent, cSocket, cSubs, cDelivered>>

\* the server handles the client's POST /api/convert
ServerHandlesConvert ==
    /\ cPc = "convertSent"
    /\ PostConvert([isArray |-> TRUE, files |-> cUploaded])
    /\ cPc' = "convertAnswered"
    /\ UNCHANGED <<cFiles, cObserver, cTasks, cUploaded, cCause, cRead, progressCallbacks,
                   cSent, cSocket, cSubs, cDelivered, cNotified>>

\* the answer of POST /api/convert reaches startConversion, and convertFiles
\* registers the callbacks and returns: lines 164-173 and 288-315
ConvertSettles(network) ==
    /\ cPc \in {"convertSent", "convertAnswered"}
    /\ cPc = "convertSent" => ~network
    /\ IF network /\ lastReq.code = 200
       THEN LET handles == lastReq.handles
                got == {i \in 1..Len(cTasks) : i <= Len(handles)}
            IN /\ cTasks' = [i \in 1..Len(cTasks) |->
                                IF i \in got
                                THEN [cTasks[i] EXCEPT !.jobId = handles[i].jobId,
                                                       !.status = "queued",
                                                       !.progress = Tenths(ClientQueuedProgress)]
                                ELSE cTasks[i]]
               /\ progressCallbacks' =
                     MapSetAll(progressCallbacks, {cTasks[i].id : i \in got}, TaskCallback)
               /\ cSent' = IF cSocket
                           THEN cSent \o [i \in 1..Cardinality(got) |->
                                            SocketMessage("join-file", cTasks[i].id)]
                           ELSE cSent
               /\ cNotified' = Notified(cObserver, cTasks', got)
               /\ cPc' = "returned"
               /\ UNCHANGED cCause
       ELSE /\ ConvertFilesThrows("Failed to start conversion",
                                  IF ~network THEN "network" ELSE "server")
            /\ UNCHANGED <<progressCallbacks, cSent>>
    /\ UNCHANGED <<cFiles, cObserver, cUploaded, cRead, cSocket, cSubs, cDelivered>>

\* the callback convertFiles registered for a task: lines 298-309
ProgressCallback(task, ev) ==
    \* Math.max(updatedTask.progress * 0.7 + 30, task.progress)
    LET scaled == ev.progress * 7 + Tenths(30)
    IN [task EXCEPT !.status = ev.status,
                    !.progress = IF scaled > task.progress THEN scaled ELSE task.progress,
                    !.outputPath = ev.outputPath,
                    !.errorMessage = ev.error,
                    !.metadata = ev.metadata]

\* socket.on('conversion-progress', ...): lines 80-96
ClientSocketEvent ==
    /\ cSocket
    /\ cRead < Len(received[ClientSocket])
    /\ LET ev == received[ClientSocket][cRead + 1]
           callback == IF ev.fileId \in DOMAIN progressCallbacks
                       THEN progressCallbacks[ev.fileId] ELSE Absent
       IN /\ cTasks' = IF callback = TaskCallback
                       THEN [i \in 1..Len(cTasks) |->
                               IF cTasks[i].id = ev.fileId
                               THEN ProgressCallback(cTasks[i], ev) ELSE cTasks[i]]
                       ELSE cTasks
          /\ cNotified' = IF callback = TaskCallback
                          THEN Notified(cObserver, cTasks,
                                        {i \in 1..Len(cTasks) : cTasks[i].id = ev.fileId})
                          ELSE cNotified
          /\ cDelivered' = IF callback \in Observers
                           THEN [cDelivered EXCEPT ![callback] = @ \cup {cRead + 1}]
                           ELSE cDelivered
    /\ cRead' = cRead + 1
    /\ UNCHANGED <<cPc, cFiles, cObserver, cUploaded, cCause, progressCallbacks, cSent,
                   cSocket, cSubs>>

\* the server handles the client's oldest message when it is join-file of
\* fileId; socket.join of a room the socket is in changes nothing
ServerHandlesJoin(fileId) ==
    /\ cSent # <<>>
    /\ Head(cSent) = SocketMessage("join-file", fileId)
    /\ ClientSocket \in connected
    /\ IF <<ClientSocket, fileId>> \in rooms
       THEN UNCHANGED srvVars
       ELSE JoinFile(ClientSocket, fileId)
    /\ cSent' = Tail(cSent)
    /\ UNCHANGED <<cPc, cFiles, cObserver, cTasks, cUploaded, cCause, cRead,
                   progressCallbacks, cSocket, cSubs, cDelivered, cNotified>>

\* the server handles the client's oldest message when it is leave-file of
\* fileId; socket.leave of a room the socket is not in changes nothing
ServerHandlesLeave(fileId) ==
    /\ cSent # <<>>
    /\ Head(cSent) = SocketMessage("leave-file", fileId)
    /\ ClientSocket \in connected
    /\ IF <<ClientSocket, fileId>> \in rooms
       THEN LeaveFile(ClientSocket, fileId)
       ELSE UNCHANGED srvVars
    /\ cSent' = Tail(cSent)
    /\ UNCHANGED <<cPc, cFiles, cObserver, cTasks, cUploaded, cCause, cRead,
                   progressCallbacks, cSocket, cSubs, cDelivered, cNotified>>

\* the server learns that the client's socket was closed
ServerHandlesDisconnect ==
    /\ cSent # <<>>
    /\ Head(cSent) = SocketMessage("disconnect", Absent)
    /\ SocketDisconnect(ClientSocket)
    /\ cSent' = Tail(cSent)
    /\ UNCHANGED <<cPc, cFiles, cObserver, cTasks, cUploaded, cCause, cRead,
                   progressCallbacks, cSocket, cSubs, cDelivered, cNotified>>

\* onConversionProgress(fileId, callback) called by an observer outside
\* convertFiles: lines 221-228
OnConversionProgress(fileId, o) ==
    /\ Len(cSent) < MaxSent
    /\ \A m \in cSubs : m.observer # o
    /\ progressCallbacks' = MapSetAll(progressCallbacks, {fileId}, o)
    /\ cSent' = IF cSocket THEN Append(cSent, SocketMessage("join-file", fileId)) ELSE cSent
    /\ cSubs' = cSubs \cup {[observer |-> o, fileId |-> fileId, at |-> cRead,
                             off |-> FALSE]}
    /\ UNCHANGED <<cPc, cFiles, cObserver, cTasks, cUploaded, cCause, cRead, cSocket,
                   cDelivered, cNotified>>

\* offConversionProgress(fileId) called by an observer that subscribed to
\* fileId: lines 231-238. The map holds one callback per fileId, and it is
\* deleted whichever observer registered it. An observer subscribes once
OffConversionProgress(fileId, o) ==
    /\ Len(cSent) < MaxSent
    /\ \E m \in cSubs : m.observer = o /\ m.fileId = fileId /\ ~m.off
    /\ progressCallbacks' = [k \in (DOMAIN progressCallbacks) \ {fileId} |->
                                progressCallbacks[k]]
    /\ cSent' = IF cSocket THEN Append(cSent, SocketMessage("leave-file", fileId)) ELSE cSent
    /\ cSubs' = {IF m.observer = o THEN [m EXCEPT !.off = TRUE] ELSE m : m \in cSubs}
    /\ UNCHANGED <<cPc, cFiles, cObserver, cTasks, cUploaded, cCause, cRead, cSocket,
                   cDelivered, cNotified>>

\* cleanup(): lines 329-335, called when the App is unmounted (App.tsx line
\* 212). Every callback is dropped and the socket is closed and forgotten: the
\* messages a socket that never connected has buffered are discarded, and
\* initializeSocket is not called again
Cleanup ==
    /\ progressCallbacks' = [f \in {} |-> TaskCallback]
    /\ cSubs' = {[m EXCEPT !.off = TRUE] : m \in cSubs}
    /\ cSocket' = FALSE
    /\ cSent' = IF ~cSocket THEN cSent
                ELSE IF ClientSocket \in connected
                THEN Append(cSent, SocketMessage("disconnect", Absent))
                ELSE <<>>
    /\ UNCHANGED <<cPc, cFiles, cObserver, cTasks, cUploaded, cCause, cRead, cDelivered,
                   cNotified>>

InitClient ==
    /\ cPc = "idle"
    /\ cFiles = <<>>
    /\ cObserver = FALSE
    /\ cTasks = <<>>
    /\ cUploaded = <<>>
    /\ cCause = "none"
    /\ cRead = 0
    /\ progressCallbacks = [f \in {} |-> TaskCallback]
    /\ cSent = <<>>
    /\ cSocket = TRUE
    /\ cSubs = {}
    /\ cDelivered = [o \in Observers |-> {}]
    /\ cNotified = {}

\* Math.round((progressEvent.loaded * 100) / progressEvent.total)
UploadPercents == {33, 100}

\* the steps of a convertFiles call, of the server it talks to and of the App
\* that unmounts, for the given batches of files and ways the engine may end
NextClientOf(batches, outcomes) ==
    \/ \E files \in batches, observer \in BOOLEAN :
          ClientConvertFiles(files, observer) /\ UNCHANGED <<srvVars, qVars, aVars, rVars, lVars, webVars>>
    \/ \E p \in UploadPercents : UploadProgress(p) /\ UNCHANGED <<srvVars, qVars, aVars, rVars, lVars, webVars>>
    \/ \E n \in BOOLEAN : UploadSettles(n) /\ UNCHANGED <<srvVars, qVars, aVars, rVars, lVars, webVars>>
    \/ ServerHandlesConvert /\ UNCHANGED <<qVars, aVars, rVars, lVars, webVars>>
    \/ \E n \in BOOLEAN : ConvertSettles(n) /\ UNCHANGED <<srvVars, qVars, aVars, rVars, lVars, webVars>>
    \/ ClientSocketEvent /\ UNCHANGED <<srvVars, qVars, aVars, rVars, lVars, webVars>>
    \/ ServerHandlesJoin(FileIdAt[1]) /\ UNCHANGED <<qVars, aVars, rVars, lVars, webVars>>
    \/ ServerHandlesJoin(FileIdAt[2]) /\ UNCHANGED <<qVars, aVars, rVars, lVars, webVars>>
    \/ Cleanup /\ UNCHANGED <<srvVars, qVars, aVars, rVars, lVars, webVars>>
    \/ ServerHandlesDisconnect /\ UNCHANGED <<qVars, aVars, rVars, lVars, webVars>>
    \/ cSocket /\ SocketConnect(ClientSocket) /\ ServerOnly
    \/ \E c \in calls, o \in outcomes : EngineReturns(c, o) /\ ServerOnly

\* a caller may pass any batch to convertFiles, the empty one too
NextClient == NextClientOf(SeqsUpTo(ClientFiles \cup {LargeFile}, MaxBatch), ProcessEnds)

\* the batches and engine outcomes of the runs the observers watch: files the
\* upload accepts, an engine that succeeds or exits with an error
ObservedBatches == SeqsUpTo({f \in ClientFiles : f.mimeOk}, MaxBatch) \ {<<>>}
ObservedOutcomes == {"success", "nonZeroExit"}

\* the client with observers that subscribe to the first of the returned
\* tasks, and unsubscribe
NextObservers ==
    \/ NextClientOf(ObservedBatches, ObservedOutcomes)
    \/ \E o \in Observers :
          /\ cPc = "returned"
          /\ OnConversionProgress(cTasks[1].id, o)
          /\ UNCHANGED <<srvVars, qVars, aVars, rVars, lVars, webVars>>
    \/ \E o \in Observers :
          /\ cPc = "returned"
          /\ OffConversionProgress(cTasks[1].id, o)
          /\ UNCHANGED <<srvVars, qVars, aVars, rVars, lVars, webVars>>
    \/ ServerHandlesLeave(FileIdAt[1]) /\ UNCHANGED <<qVars, aVars, rVars, lVars, webVars>>

(***************************************************************************)
(* The local converters: WebOnlyConverter.convertFiles (apiClient.ts lines *)
(* 554-611), WebFileHandler.convertFiles (webFileHandler.ts lines 80-118)  *)
(* and ConverterApp.convertFiles (apiClient.ts lines 807-846). The three   *)
(* loops have the same shape; lVariant tells them apart.                   *)
(***************************************************************************)
Variants == {"webOnly", "handler", "electron"}

\* fileName.replace(/\.[^/.]+$/, '')
StripExtension(name) ==
    LET d == LastDot(name)
    IN IF d = 0 \/ d = Len(name) \/ (\E k \in (d + 1)..Len(name) : name[k] = "/")
       THEN name
       ELSE SubSeq(name, 1, d - 1)

\* a task as the caller passes it
LocalTask(i, name, file) ==
    [id |-> TaskIdAt[i], fileName |-> name, file |-> file, status |-> "pending",
     progress |-> 0, outputPath |-> AbsentPath, errorMessage |-> Absent,
     metadata |-> AbsentMetadata]

LocalTaskLists ==
    UNION { { [i \in 1..n |-> LocalTask(i, names[i], files[i])] :
                names \in [1..n -> PickedNames], files \in [1..n -> BOOLEAN] } :
            n \in 1..MaxBatch }

\* the running call, threaded through one run-to-completion segment
LocalState ==
    [pc |-> lPc, idx |-> lIdx, cur |-> lCur, updated |-> lUpdated, seen |-> lSeen]

\* the converter that runs, its `tasks` argument and the observer's behaviour
LocalCall == [variant |-> lVariant, tasks |-> lTasks, bad |-> lBad, outputDir |-> lDir]

\* onProgress?.(updatedTask), or webContents.send in the main process: the
\* observer is handed the task; `thrown` tells whether the call threw
Deliver(ls, task) ==
    [ls EXCEPT !.seen = Append(@, task)]

ObserverThrows(cx, task) == cx.variant # "electron" /\ task.status \in cx.bad

\* the name of the output file
LocalOutputName(cx, task) ==
    IF cx.variant = "webOnly" THEN ReplaceExtension(task.fileName)
    ELSE ReplaceDocx(task.fileName)

\* the directories a caller may pass as outputDir: the defaults of the two
\* web renderers, a name typed at the prompt that ends in a separator, and
\* none
LocalOutputDirs == { <<"Downloads">>, OutputDirectory, <<"o", "/">>, UndefinedName }

\* the parameter outputDir: WebOnlyConverter has the default 'Downloads'
\* (apiClient.ts line 556); in a template `undefined` is spelled out
OutputDirOf(cx) ==
    IF cx.variant = "webOnly" /\ cx.outputDir = UndefinedName THEN <<"Downloads">>
    ELSE cx.outputDir

\* `${outputDir}/${outputFileName}` in the two web converters,
\* join(outputDir, outputFileName) in ConverterApp
LocalOutputPath(cx, task) ==
    IF cx.variant = "electron"
    THEN PathJoin(OutputDirOf(cx), LocalOutputName(cx, task))
    ELSE OutputDirOf(cx) \o <<"/">> \o LocalOutputName(cx, task)

\* the catch block of the loop
LocalFailed(cx, task, message) ==
    IF cx.variant = "webOnly"
    THEN [task EXCEPT !.status = "failed", !.progress = 0, !.errorMessage = message]
    ELSE [task EXCEPT !.status = "failed", !.errorMessage = message]

\* WebOnlyConverter.convertSingleFile: the converter a file name is handed to;
\* the last branch takes every other name
ConvertSingleFile(name) ==
    IF EndsWith(name, <<".", "d", "o", "c", "x">>) THEN "convertDocx"
    ELSE IF EndsWith(name, <<".", "t", "x", "t">>) THEN "convertText"
    ELSE IF EndsWith(name, <<".", "h", "t", "m", "l">>) \/ EndsWith(name, <<".", "h", "t", "m">>)
    THEN "convertHtml"
    ELSE "convertText"

\* the extensions the file picker offers: `input.accept`
AcceptedExtensions ==
    { <<".", "d", "o", "c", "x">>, <<".", "p", "d", "f">>, <<".", "p", "p", "t", "x">>,
      <<".", "x", "l", "s", "x">>, <<".", "h", "t", "m", "l">>, <<".", "t", "x", "t">>,
      <<".", "j", "p", "g">>, <<".", "j", "p", "e", "g">>, <<".", "p", "n", "g">>,
      <<".", "g", "i", "f">>, <<".", "m", "p", "3">>, <<".", "w", "a", "v">> }

SupportedType(name) == \E x \in AcceptedExtensions : EndsWith(name, x)

\* the message of the error a failed read ends in: convertDocx, convertText and
\* convertHtml of WebOnlyConverter wrap it, as convertSingleFile of the two
\* other converters does
ReadErrorMessage(cx, name) ==
    IF cx.variant # "webOnly" THEN "Failed to convert file"
    ELSE IF ConvertSingleFile(name) = "convertDocx" THEN "DOCX conversion failed"
    ELSE IF ConvertSingleFile(name) = "convertHtml" THEN "HTML conversion failed"
    ELSE "Text conversion failed"

RECURSIVE LocalIteration(_, _, _)
\* the end of an iteration: updatedTasks.push and the last onProgress of the
\* task, which is outside the try block; then the next iteration or the return
LocalFinish(cx, ls, task) ==
    LET l1 == Deliver([ls EXCEPT !.updated = Append(@, task)], task)
    IN IF ObserverThrows(cx, task)
       THEN [l1 EXCEPT !.pc = "threw", !.cur = <<>>]
       ELSE LocalIteration(cx, l1, ls.idx + 1)

\* an iteration from its top to its await
LocalIteration(cx, ls, i) ==
    IF i > Len(cx.tasks)
    THEN [ls EXCEPT !.pc = "returned", !.idx = i, !.cur = <<>>]
    ELSE
      LET l0 == [ls EXCEPT !.idx = i]
          t1 == IF cx.variant = "webOnly"
                THEN [cx.tasks[i] EXCEPT !.status = "processing", !.progress = Tenths(10)]
                ELSE [cx.tasks[i] EXCEPT !.status = "processing"]
          l1 == Deliver(l0, t1)
      IN IF ObserverThrows(cx, t1)
         THEN LocalFinish(cx, l1, LocalFailed(cx, t1, "observer error"))
         ELSE IF cx.variant = "electron"
         THEN [l1 EXCEPT !.pc = "await",
                         !.cur = <<[t1 EXCEPT !.outputPath = LocalOutputPath(cx, t1)]>>]
         ELSE IF ~cx.tasks[i].file
         THEN LocalFinish(cx, l1, LocalFailed(cx, t1, "File not available"))
         ELSE IF cx.variant = "handler"
         THEN [l1 EXCEPT !.pc = "await", !.cur = <<t1>>]
         ELSE LET t2 == [t1 EXCEPT !.progress = Tenths(50)]
                  l2 == Deliver(l1, t2)
              IN IF ObserverThrows(cx, t2)
                 THEN LocalFinish(cx, l2, LocalFailed(cx, t2, "observer error"))
                 ELSE [l2 EXCEPT !.pc = "await", !.cur = <<t2>>]

\* an iteration from its await to its end
LocalAfterAwait(cx, ls, outcome) ==
    LET t == ls.cur[1] IN
    IF outcome = "readError"
    THEN LocalFinish(cx, ls, LocalFailed(cx, t, ReadErrorMessage(cx, t.fileName)))
    ELSE IF cx.variant = "electron"
    THEN LocalFinish(cx, ls, [t EXCEPT !.status = "completed"])
    ELSE IF cx.variant = "handler"
    THEN LET t1 == [t EXCEPT !.outputPath = LocalOutputPath(cx, t)]
         IN IF outcome = "downloadError"
            THEN LocalFinish(cx, ls, LocalFailed(cx, t1, "download error"))
            ELSE LocalFinish(cx, ls, [t1 EXCEPT !.status = "completed"])
    ELSE LET t1 == [t EXCEPT !.metadata = [title |-> StripExtension(t.fileName),
                                           word_count |-> 1, char_count |-> 1],
                             !.progress = Tenths(90)]
             l1 == Deliver(ls, t1)
             t2 == [t1 EXCEPT !.outputPath = LocalOutputPath(cx, t1)]
         IN IF ObserverThrows(cx, t1)
            THEN LocalFinish(cx, l1, LocalFailed(cx, t1, "observer error"))
            ELSE IF outcome = "downloadError"
            THEN LocalFinish(cx, l1, LocalFailed(cx, t2, "download error"))
            ELSE LocalFinish(cx, l1, [t2 EXCEPT !.status = "completed",
                                                     !.progress = Tenths(100)])

InstallLocal(ls) ==
    /\ lPc' = ls.pc
    /\ lIdx' = ls.idx
    /\ lCur' = ls.cur
    /\ lUpdated' = ls.updated
    /\ lSeen' = ls.seen

\* convertFiles is called: up to its first await
LocalConvertFiles(variant, ts, bad, outputDir) ==
    /\ lPc = "idle"
    /\ lVariant' = variant
    /\ lTasks' = ts
    /\ lBad' = bad
    /\ lDir' = outputDir
    /\ IF variant = "electron"
       THEN /\ lPc' = "mkdir"
            /\ UNCHANGED <<lIdx, lCur, lUpdated, lSeen>>
       ELSE InstallLocal(LocalIteration([variant |-> variant, tasks |-> ts, bad |-> bad,
                                         outputDir |-> outputDir],
                                        LocalState, 1))

\* `await mkdir(outputDir, { recursive: true })` settles, whichever way
MkdirSettles ==
    /\ lPc = "mkdir"
    /\ InstallLocal(LocalIteration(LocalCall, LocalState, 1))
    /\ UNCHANGED <<lVariant, lTasks, lBad, lDir>>

\* `await this.convertSingleFile(...)` settles
LocalConvertSettles(outcome) ==
    /\ lPc = "await"
    /\ lVariant = "electron" => outcome # "downloadError"
    /\ InstallLocal(LocalAfterAwait(LocalCall, LocalState, outcome))
    /\ UNCHANGED <<lVariant, lTasks, lBad, lDir>>

InitLocal ==
    /\ lPc = "idle"
    /\ lVariant = "webOnly"
    /\ lBad = {}
    /\ lTasks = <<>>
    /\ lDir = <<>>
    /\ lIdx = 0
    /\ lCur = <<>>
    /\ lUpdated = <<>>
    /\ lSeen = <<>>

LocalOnly == UNCHANGED <<srvVars, qVars, aVars, rVars, cVars, webVars>>

NextLocal ==
    \/ \E v \in Variants, ts \in LocalTaskLists,
          bad \in SUBSET {"processing", "completed", "failed"},
          dir \in LocalOutputDirs :
          \* the Electron renderer passes the directory it shows
          /\ v = "electron" => dir # UndefinedName
          /\ LocalConvertFiles(v, ts, bad, dir) /\ LocalOnly
    \/ MkdirSettles /\ LocalOnly
    \/ \E o \in ConvertOutcomes : LocalConvertSettles(o) /\ LocalOnly

(***************************************************************************)
(* The web renderer: App.tsx lines 177-540 with the WebFileHandler of      *)
(* webFileHandler.ts lines 156-311, which converts through                 *)
(* WebOnlyConverter (production, or API not healthy, or API call failed)   *)
(* or through WebAPIClient.convertFiles.                                   *)
(***************************************************************************)
MaxUiIds == 2       \* task ids selectFiles and selectFolder may hand out

\* `${Date.now()}-${Math.random()}`
UiIdAt == <<"ui-1", "ui-2", "ui-3", "ui-4">>

\* the task selectFiles makes for a picked file: webFileHandler.ts lines 170-179
UiTask(i, f) ==
    [id |-> UiIdAt[i], inputPath |-> f.name, fileName |-> f.name, file |-> TRUE,
     mimeOk |-> f.mimeOk, tooLarge |-> f.tooLarge, status |-> "pending", progress |-> 0,
     outputPath |-> AbsentPath, errorMessage |-> Absent, metadata |-> AbsentMetadata]

\* the files of the folder the user may pick
FolderFiles == { [name |-> <<"b", ".", "T", "X", "T">>, mimeOk |-> TRUE, tooLarge |-> FALSE],
                 [name |-> <<"x">>, mimeOk |-> FALSE, tooLarge |-> FALSE] }

\* the task selectFolder makes for a file of the picked folder:
\* webFileHandler.ts lines 202-210
FolderUiTask(i, f) ==
    [UiTask(i, f) EXCEPT !.inputPath = PickedFolder \o f.name]

\* { ...t, ...updatedTask }
Merge(t, u) ==
    [f \in (DOMAIN t) \cup (DOMAIN u) |-> IF f \in DOMAIN u THEN u[f] ELSE t[f]]

\* the callback handleConversion passes as onProgress: App.tsx lines 261-265
ApplyUpdate(ui, u) ==
    [i \in 1..Len(ui) |-> IF ui[i].id = u.id THEN Merge(ui[i], u) ELSE ui[i]]

RECURSIVE ApplyUpdates(_, _)
ApplyUpdates(ui, us) ==
    IF us = <<>> THEN ui ELSE ApplyUpdates(ApplyUpdate(ui, Head(us)), Tail(us))

\* the updates WebOnlyConverter handed to onProgress in this step
WebOnlyUpdates == SubSeq(lSeen', Len(lSeen) + 1, Len(lSeen'))

\* the tasks WebAPIClient handed to onProgress in this step, as they are at its end
ApiUpdates ==
    LET idxs == {i \in 1..Len(cTasks') :
                    [index |-> i, id |-> cTasks'[i].id] \in cNotified'
                    /\ (i > Len(cTasks) \/ cTasks'[i] # cTasks[i]
                        \/ [index |-> i, id |-> cTasks'[i].id] \notin cNotified)}
    IN [i \in 1..Len(cTasks') |-> IF i \in idxs THEN <<cTasks'[i]>> ELSE <<>>]

RECURSIVE Flatten(_)
Flatten(ss) == IF ss = <<>> THEN <<>> ELSE Head(ss) \o Flatten(Tail(ss))

\* tasks.map(task => task.file).filter(Boolean): webFileHandler.ts line 241
WebFilesOf(ui) ==
    LET withFile == SelectSeq(ui, LAMBDA t : t.file)
    IN [i \in 1..Len(withFile) |-> [name |-> withFile[i].fileName,
                                    mimeOk |-> withFile[i].mimeOk,
                                    tooLarge |-> withFile[i].tooLarge]]

\* handleAddFiles: App.tsx lines 216-223
WebAddFiles(files) ==
    /\ webIds + Len(files) <= MaxUiIds
    /\ webUi' = webUi \o [i \in 1..Len(files) |-> UiTask(webIds + i, files[i])]
    /\ webIds' = webIds + Len(files)
    /\ UNCHANGED <<webPc, webConverting, webDownloads, webRun>>

\* handleAddFolder: App.tsx lines 225-232; selectFolder keeps the files whose
\* name matches /\.(docx|pdf|...|wav)$/i (webFileHandler.ts lines 199-201)
WebAddFolder(files) ==
    LET supportedFiles == SelectSeq(files, LAMBDA f : SupportedType(f.name))
    IN /\ webIds + Len(supportedFiles) <= MaxUiIds
       /\ webUi' = webUi \o [i \in 1..Len(supportedFiles) |->
                                FolderUiTask(webIds + i, supportedFiles[i])]
       /\ webIds' = webIds + Len(supportedFiles)
       /\ UNCHANGED <<webPc, webConverting, webDownloads, webRun>>

\* handleRemoveTask: App.tsx lines 234-236
WebRemoveTask(id) ==
    /\ \E i \in 1..Len(webUi) : webUi[i].id = id
    /\ webUi' = SelectSeq(webUi, LAMBDA t : t.id # id)
    /\ UNCHANGED <<webPc, webConverting, webDownloads, webIds, webRun>>

\* handleClearAll: App.tsx lines 238-241; the button is shown when there are tasks
WebClearAll ==
    /\ Len(webUi) > 0
    /\ webUi' = <<>>
    /\ UNCHANGED <<webPc, webConverting, webDownloads, webIds, webRun>>

\* the outputDirectory of the web App: useState('Downloads') at App.tsx line
\* 188, and both getDefaultOutputDirectory and selectOutputDirectory of
\* webFileHandler.ts lines 278-285 answer 'Downloads', so that the effect of
\* line 195 and handleOutputDirectorySelection (lines 243-250) leave it as it is
WebOutputDirectory == <<"Downloads">>

\* whether webOnlyConverter.convertFiles has ended at the end of this step
WebOnlyEnded == lPc' \in {"returned", "threw"}

\* webOnlyConverter.convertFiles(tasks, outputDir, onProgress) is called and
\* runs to its first pending await; ui: the tasks its updates are applied to.
\* When no await is pending it has ended, and the finally block of
\* handleConversion (App.tsx lines 269-271) runs in the same task
WebOnlyStarts(ts, ui) ==
    /\ LocalConvertFiles("webOnly", ts, {}, WebOutputDirectory)
    /\ webUi' = ApplyUpdates(ui, WebOnlyUpdates)
    /\ webPc' = IF WebOnlyEnded THEN "done" ELSE "webOnly"
    /\ webConverting' = ~WebOnlyEnded

\* handleConversion up to the first await of WebFileHandler.convertFiles:
\* App.tsx lines 252-266, webFileHandler.ts lines 224-249; the start button is
\* disabled while isConverting. One run is followed. Without a file to send,
\* convertFiles throws at once and the finally block ends the run.
WebHandleConversion(production) ==
    /\ webPc = "idle"
    /\ ~webConverting
    /\ Len(webUi) # 0
    /\ webRun' = webUi
    /\ UNCHANGED <<webDownloads, webIds>>
    /\ IF production
       THEN WebOnlyStarts(webUi, webUi)
       ELSE IF Len(WebFilesOf(webUi)) = 0
       THEN /\ webPc' = "done"
            /\ webConverting' = FALSE
            /\ UNCHANGED <<webUi, lVars>>
       ELSE /\ webPc' = "health"
            /\ webConverting' = TRUE
            /\ UNCHANGED <<webUi, lVars>>

\* `await this.checkAPIHealth()` settles: webFileHandler.ts lines 249-256
WebHealthSettles(healthy) ==
    /\ webPc = "health"
    /\ IF healthy
       THEN /\ ClientConvertFiles(WebFilesOf(webRun), TRUE)
            /\ webUi' = ApplyUpdates(webUi, Flatten(ApiUpdates))
            /\ webPc' = "api"
            /\ UNCHANGED <<lVars, webConverting>>
       ELSE /\ WebOnlyStarts(webRun, webUi)
            /\ UNCHANGED cVars
    /\ UNCHANGED <<webDownloads, webIds, webRun>>

\* the tasks of convertedTasks the loop of webFileHandler.ts lines 259-268
\* calls downloadFile for, in order, at the end of this step
DownloadsDue ==
    SelectSeq(cTasks', LAMBDA t : t.status = "completed" /\ t.outputPath # AbsentPath)

\* a `await this.convertSingleFile(...)` of the web-only converter settles; the
\* loop goes on to its next await, or ends, and then handleConversion ends in
\* the same task
WebOnlySettles(outcome) ==
    /\ webPc = "webOnly"
    /\ LocalConvertSettles(outcome)
    /\ webUi' = ApplyUpdates(webUi, WebOnlyUpdates)
    /\ webPc' = IF WebOnlyEnded THEN "done" ELSE "webOnly"
    /\ webConverting' = ~WebOnlyEnded
    /\ UNCHANGED <<webDownloads, webIds, webRun>>

\* a step of WebAPIClient whose onProgress calls reach the renderer. The
\* continuations of `await webAPIClient.convertFiles(...)` are microtasks of
\* the step that settles the call. When the call throws, the catch of
\* webFileHandler.ts lines 271-274 starts the web-only converter. When it
\* returns, the loop of lines 259-268 runs: without a completed task it ends,
\* convertFiles returns and handleConversion ends (App.tsx lines 269-271);
\* with one, the first downloadFile is called and awaited
WebApiStep(A) ==
    /\ A
    /\ LET ui == ApplyUpdates(webUi, Flatten(ApiUpdates))
       IN IF webPc = "api" /\ cPc # "threw" /\ cPc' = "threw"
          THEN /\ WebOnlyStarts(webRun, ui)
               /\ UNCHANGED webDownloads
          ELSE IF webPc = "api" /\ cPc # "returned" /\ cPc' = "returned"
          THEN /\ webUi' = ui
               /\ IF DownloadsDue = <<>>
                  THEN /\ webPc' = "done"
                       /\ webConverting' = FALSE
                       /\ UNCHANGED webDownloads
                  ELSE /\ webPc' = "download"
                       /\ webDownloads' = webDownloads \cup {DownloadsDue[1].id}
                       /\ UNCHANGED webConverting
               /\ UNCHANGED lVars
          ELSE /\ webUi' = ui
               /\ UNCHANGED <<webPc, webConverting, webDownloads, lVars>>
    /\ UNCHANGED <<webIds, webRun>>

InitWeb ==
    /\ webPc = "idle"
    /\ webUi = <<>>
    /\ webConverting = FALSE
    /\ webDownloads = {}
    /\ webIds = 0
    /\ webRun = <<>>

NextWeb ==
    \/ \E files \in SeqsUpTo(ClientFiles, MaxBatch) \ {<<>>} :
          WebAddFiles(files) /\ UNCHANGED <<srvVars, qVars, aVars, rVars, cVars, lVars>>
    \/ \E files \in SeqsUpTo(FolderFiles, MaxBatch) \ {<<>>} :
          WebAddFolder(files) /\ UNCHANGED <<srvVars, qVars, aVars, rVars, cVars, lVars>>
    \/ \E i \in 1..MaxUiIds :
          WebRemoveTask(UiIdAt[i]) /\ UNCHANGED <<srvVars, qVars, aVars, rVars, cVars, lVars>>
    \/ WebClearAll /\ UNCHANGED <<srvVars, qVars, aVars, rVars, cVars, lVars>>
    \/ \E production \in BOOLEAN :
          WebHandleConversion(production) /\ UNCHANGED <<srvVars, qVars, aVars, rVars, cVars>>
    \/ \E healthy \in BOOLEAN :
          WebHealthSettles(healthy) /\ UNCHANGED <<srvVars, qVars, aVars, rVars>>
    \/ \E o \in ConvertOutcomes :
          WebOnlySettles(o) /\ UNCHANGED <<srvVars, qVars, aVars, rVars, cVars>>
    \/ \E p \in UploadPercents : WebApiStep(UploadProgress(p)) /\ UNCHANGED <<srvVars, qVars, aVars, rVars>>
    \/ \E n \in BOOLEAN : WebApiStep(UploadSettles(n)) /\ UNCHANGED <<srvVars, qVars, aVars, rVars>>
    \/ WebApiStep(ServerHandlesConvert) /\ UNCHANGED <<qVars, aVars, rVars>>
    \/ \E n \in BOOLEAN : WebApiStep(ConvertSettles(n)) /\ UNCHANGED <<srvVars, qVars, aVars, rVars>>
    \/ WebApiStep(ClientSocketEvent) /\ UNCHANGED <<srvVars, qVars, aVars, rVars>>
    \/ WebApiStep(ServerHandlesJoin(FileIdAt[1])) /\ UNCHANGED <<qVars, aVars, rVars>>
    \/ WebApiStep(ServerHandlesJoin(FileIdAt[2])) /\ UNCHANGED <<qVars, aVars, rVars>>
    \/ cSocket /\ SocketConnect(ClientSocket) /\ ServerOnly
    \/ \E c \in calls, o \in ProcessEnds : EngineReturns(c, o) /\ ServerOnly

(***************************************************************************)
(* The engine adapter convertWithMarkItDown (server-simple.js lines        *)
(* 102-198; api/convert.js lines 14-110 is the same code): the temporary   *)
(* script, the python process and the promise of each invocation.          *)
(***************************************************************************)
MaxInvocations == 2

Invocations == 1..MaxInvocations

\* how an invocation starts: fs.writeFileSync throws, spawn throws (an
\* argument it refuses, or a spawn error other than EACCES, EAGAIN, EMFILE,
\* ENFILE, ENOENT), spawn fails to start the process, or the process runs
Starts == {"writeThrows", "spawnThrows", "spawnFails", "started"}

\* reject(...) or resolve(...): only the first call settles the promise
Settle(promise, how) == IF promise = "pending" THEN how ELSE promise

\* the segment that calls convertWithMarkItDown: the promise executor of lines
\* 103-168 and, when spawn failed to start the process, the 'error' event the
\* child emits from a process.nextTick callback before another task runs
\* (lines 192-196: unlink, reject)
Executor(i, start) ==
    /\ aPc[i] = "idle"
    /\ aPc' = [aPc EXCEPT ![i] = CASE start = "started" -> "running"
                                   [] start = "spawnFails" -> "errored"
                                   [] OTHER -> "threw"]
    /\ tempScripts' = IF start = "writeThrows" THEN tempScripts ELSE tempScripts \cup {i}
    /\ aPromise' = [aPromise EXCEPT ![i] =
                       IF start = "started" THEN "pending" ELSE "rejected"]
    /\ unlinks' = IF start = "spawnFails"
                  THEN unlinks \cup {[inv |-> i, by |-> "error"]}
                  ELSE unlinks

\* pythonProcess.on('close', ...): lines 169-190. After a failed spawn the
\* event comes in a later task than the 'error' event, once the streams of
\* the child are closed, with a negative code: unlink is called again, and
\* reject finds the promise settled
OnClose(i, end) ==
    /\ \/ aPc[i] = "running"
       \/ aPc[i] = "errored" /\ end = "nonZeroExit"
    /\ unlinks' = unlinks \cup {[inv |-> i, by |-> "close"]}
    /\ aPromise' = [aPromise EXCEPT ![i] =
                       Settle(@, IF ConvertWithMarkItDown(<<>>, <<>>, end).ok
                                 THEN "resolved" ELSE "rejected")]
    /\ aPc' = [aPc EXCEPT ![i] = "closed"]
    /\ UNCHANGED tempScripts

\* fs.unlink(tempScriptPath) settles; its error, if the file is already gone,
\* is passed to console.error
UnlinkSettles(u) ==
    /\ u \in unlinks
    /\ unlinks' = unlinks \ {u}
    /\ tempScripts' = tempScripts \ {u.inv}
    /\ UNCHANGED <<aPc, aPromise>>

InitAdapter ==
    /\ aPc = [i \in Invocations |-> "idle"]
    /\ aPromise = [i \in Invocations |-> "pending"]
    /\ tempScripts = {}
    /\ unlinks = {}

AdapterOnly == UNCHANGED <<srvVars, qVars, rVars, cVars, lVars, webVars>>

NextAdapter ==
    \/ \E i \in Invocations, start \in Starts : Executor(i, start) /\ AdapterOnly
    \/ \E i \in Invocations, end \in ProcessEnds : OnClose(i, end) /\ AdapterOnly
    \/ \E u \in unlinks : UnlinkSettles(u) /\ AdapterOnly

\* an event of the process that is due is emitted, and a started unlink settles
AdapterFairness ==
    /\ \A i \in Invocations :
          WF_vars(\E end \in ProcessEnds : OnClose(i, end) /\ AdapterOnly)
    /\ \A i \in Invocations :
          WF_vars(\E u \in unlinks : u.inv = i /\ UnlinkSettles(u) /\ AdapterOnly)

(***************************************************************************)
(* Specifications.                                                         *)
(***************************************************************************)
Init == InitServer /\ InitQueue /\ InitRenderer /\ InitClient /\ InitLocal /\ InitWeb /\ InitAdapter

Spec == Init /\ [][Next]_vars

SpecFair == Init /\ [][Next]_vars /\ EngineFairness

SpecSocket == Init /\ [][NextSocket]_vars

SpecQueue == Init /\ [][NextQueue]_vars

SpecRenderer == Init /\ [][NextRenderer]_vars

SpecClient == Init /\ [][NextClient]_vars

SpecLocal == Init /\ [][NextLocal]_vars

SpecObservers == Init /\ [][NextObservers]_vars

SpecWeb == Init /\ [][NextWeb]_vars

SpecAdapter == Init /\ [][NextAdapter]_vars

SpecAdapterFair == Init /\ [][NextAdapter]_vars /\ AdapterFairness

(***************************************************************************)
(* Claims about the in-memory server.                                      *)
(***************************************************************************)
StatusOf(j) == IF j \in DOMAIN jobs THEN jobs[j].status ELSE "none"
SameBatch(j, k) ==
    j \in DOMAIN batchOf /\ k \in DOMAIN batchOf /\ batchOf[j] = batchOf[k]

\* C1: partial failure isolation. When the engine has failed for one job of a
\* request, every other job of that request eventually reaches completed or
\* failed, in whatever order the engine invocations return.
C1_PartialFailureIsolation ==
    \A j \in JobIds : \A k \in JobIds \ {j} :
        (SameBatch(j, k) /\ StatusOf(j) = "failed") ~> IsTerminal(StatusOf(k))

C1_Witness ==
    \E j \in DOMAIN jobs, k \in DOMAIN jobs :
        /\ j < k /\ SameBatch(j, k)
        /\ jobs[k].status = "failed" /\ jobs[j].status = "completed"
        /\ oplog # <<>> /\ oplog[1].jobId = j

\* C3: completed and failed are absorbing. No step changes the status of a
\* record that is completed or failed, and no step removes the record.
C3_TerminalIsAbsorbing ==
    [][\A j \in DOMAIN jobs :
          IsTerminal(jobs[j].status) =>
              j \in DOMAIN jobs' /\ jobs'[j].status = jobs[j].status]_vars

C3_Witness ==
    \E j \in DOMAIN jobs, k \in DOMAIN jobs :
        /\ IsTerminal(jobs[j].status)
        /\ batchOf[k] > batchOf[j]
        /\ jobs[k].fileId = jobs[j].fileId
        /\ jobs[k].status = "processing"
        /\ oplog # <<>> /\ oplog[1].jobId = k

\* C4: a request carrying a non-empty array of N entries is answered with N
\* handles, one per entry in order, N records were created for it, and every
\* jobId is new.
C4_OneJobPerEntry ==
    lastReq.n >= 1 =>
        /\ lastReq.code = 200
        /\ Len(lastReq.handles) = lastReq.n
        /\ Cardinality(lastReq.created) = lastReq.n
        /\ \A i \in 1..Len(lastReq.handles) :
              /\ lastReq.handles[i].fileId = lastReq.fileIds[i]
              /\ lastReq.handles[i].jobId \in lastReq.created
              /\ jobs[lastReq.handles[i].jobId].fileId = lastReq.fileIds[i]
        /\ \A i, k \in 1..Len(lastReq.handles) :
              i # k => lastReq.handles[i].jobId # lastReq.handles[k].jobId

\* what holds of the requests the server accepts
AcceptedRequestHasOneJobPerEntry ==
    (lastReq.n >= 1 /\ lastReq.code = 200) =>
        /\ Len(lastReq.handles) = lastReq.n
        /\ Cardinality(lastReq.created) = lastReq.n
        /\ \A i \in 1..Len(lastReq.handles) :
              /\ lastReq.handles[i].fileId = lastReq.fileIds[i]
              /\ lastReq.handles[i].jobId \in lastReq.created
        /\ \A i, k \in 1..Len(lastReq.handles) :
              i # k => lastReq.handles[i].jobId # lastReq.handles[k].jobId

\* C5: within a segment every jobs.set is followed at once by an emit with the
\* record's new status and progress, and between segments the last event of a
\* job agrees with the job's record.
C5_EveryWriteIsBroadcast ==
    /\ \A i \in 1..Len(oplog) :
          oplog[i].op = "set" =>
              /\ i < Len(oplog)
              /\ oplog[i + 1].op = "emit"
              /\ oplog[i + 1].jobId = oplog[i].jobId
              /\ oplog[i + 1].status = oplog[i].status
              /\ oplog[i + 1].progress = oplog[i].progress
    /\ \A j \in DOMAIN jobs :
          /\ j \in DOMAIN emitted
          /\ emitted[j][Len(emitted[j])].status = jobs[j].status
          /\ emitted[j][Len(emitted[j])].progress = jobs[j].progress
          /\ emitted[j][Len(emitted[j])].fileId = jobs[j].fileId

C5_Witness ==
    \E j \in DOMAIN jobs, k \in DOMAIN jobs :
        /\ j # k
        /\ jobs[j].status = "failed" /\ jobs[k].status = "completed"
        /\ Len(oplog) = 2 /\ oplog[1].op = "set" /\ oplog[1].status = "failed"

\* C6: a record carries an output reference and metadata exactly when its
\* status is completed.
C6_OutputIffCompleted ==
    \A j \in DOMAIN jobs :
        /\ (jobs[j].outputPath # AbsentPath) <=> (jobs[j].status = "completed")
        /\ (jobs[j].metadata # AbsentMetadata) <=> (jobs[j].status = "completed")

\* what holds of the server's records: metadata exactly when completed
MetadataIffCompleted ==
    \A j \in DOMAIN jobs :
        (jobs[j].metadata # AbsentMetadata) <=> (jobs[j].status = "completed")

\* C8: GET /api/jobs reports, for each status, the number of records in that
\* status, total is the number of records, and the four counts add up to total.
C8_StatsAreCounts ==
    LET r == GetJobs
        n(status) == Cardinality({j \in DOMAIN jobs : jobs[j].status = status})
    IN /\ r.stats.total = Cardinality(DOMAIN jobs)
       /\ r.stats.queued = n("queued")
       /\ r.stats.processing = n("processing")
       /\ r.stats.completed = n("completed")
       /\ r.stats.failed = n("failed")
       /\ r.stats.queued + r.stats.processing + r.stats.completed + r.stats.failed
             = r.stats.total
       /\ Len(r.jobs) = r.stats.total
       /\ \A j \in DOMAIN jobs : \E i \in 1..Len(r.jobs) : r.jobs[i] = jobs[j]

C8_Witness ==
    /\ GetJobs.stats.total = 2
    /\ GetJobs.stats.failed = 1
    /\ GetJobs.stats.processing = 1

\* C9: a socket that joins the room of a file whose job is already completed
\* or failed has been delivered, since joining, exactly one terminal event of
\* that file.
C9_LateSubscriberGetsTerminal ==
    \A m \in lateJoin :
        LET since == SubSeq(received[m.socket], m.at + 1, Len(received[m.socket]))
            terminal == SelectSeq(since,
                          LAMBDA e : e.fileId = m.fileId /\ IsTerminal(e.status))
        IN Len(terminal) = 1

C7_ErrorIffFailed ==
    \A i \in 1..Len(tasks) :
        (tasks[i].errorMessage # Absent) <=> (tasks[i].status = "failed")

\* the same statement of the in-memory server's records, where it holds
ServerErrorIffFailed ==
    \A j \in DOMAIN jobs : (jobs[j].error # Absent) <=> (jobs[j].status = "failed")

(***************************************************************************)
(* Claims about WebAPIClient.convertFiles.                                 *)
(***************************************************************************)
\* C10: when the upload is rejected because one file of the batch has an
\* unsupported type, the call does not fail as a whole and no task of a
\* supported file is set to failed.
C10_FailureConfinedToItsInput ==
    cCause = "fileFilter" =>
        /\ cPc # "threw"
        /\ \A i \in 1..Len(cTasks) : cFiles[i].mimeOk => cTasks[i].status # "failed"

\* a failed conversion of one job leaves the tasks of the other jobs alone
EngineFailureConfinedToItsTask ==
    cCause = "none" =>
        \A i \in 1..Len(cTasks) :
            cTasks[i].status = "failed" =>
                \E j \in DOMAIN jobs :
                    jobs[j].fileId = cTasks[i].id /\ jobs[j].status = "failed"

(***************************************************************************)
(* Claims about the submission call and the observers.                     *)
(***************************************************************************)
\* C11: a request answered with an error has created no job record and has
\* dispatched no conversion.
C11_ErrorResponseCreatesNothing ==
    lastReq.code \in {400, 500} =>
        /\ lastReq.created = {}
        /\ \A c \in calls : batchOf[c.jobId] # reqCount

\* a request with no usable files array is refused before anything is created
RefusedRequestCreatesNothing ==
    lastReq.code = 400 => lastReq.created = {}

\* C12: an exception thrown by the observer never marks a task failed, and
\* never keeps the converter from processing the remaining tasks.
C12_ObserverErrorIsDropped ==
    /\ \A i \in 1..Len(lUpdated) : lUpdated[i].errorMessage # "observer error"
    /\ lPc # "threw"

\* C13: every conversion-progress event of a file that the socket handler
\* processes after an observer subscribed to the file is handed to that
\* observer, also when another observer subscribed to the same file (as long
\* as the observer has not unsubscribed and the client was not cleaned up).
C13_EverySubscriberIsNotified ==
    \A m \in cSubs :
        ~m.off =>
            \A n \in (m.at + 1)..cRead :
                received[ClientSocket][n].fileId = m.fileId => n \in cDelivered[m.observer]

\* the observer that subscribed last, while its callback is registered, is
\* handed every later event of the file
LastSubscriberIsNotified ==
    \A m \in cSubs :
        (~m.off /\ m.fileId \in DOMAIN progressCallbacks /\ progressCallbacks[m.fileId] = m.observer)
            => \A n \in (m.at + 1)..cRead :
                  (received[ClientSocket][n].fileId = m.fileId
                     /\ \A x \in cSubs : x.at < n)
                      => n \in cDelivered[m.observer]

\* C14: the progress values of the events emitted for one job never decrease,
\* the completed or failed event included.
C14_ProgressNeverDecreases ==
    \A j \in DOMAIN emitted :
        \A i, k \in 1..Len(emitted[j]) :
            i < k => emitted[j][i].progress <= emitted[j][k].progress

\* the events of a job before its failed event, and the completed event
ProgressNeverDecreasesUnlessFailed ==
    \A j \in DOMAIN emitted :
        \A i, k \in 1..Len(emitted[j]) :
            (i < k /\ emitted[j][k].status # "failed")
                => emitted[j][i].progress <= emitted[j][k].progress

\* the progress of a task of WebAPIClient.convertFiles never decreases
ClientProgressNeverDecreases ==
    [][\A i \in 1..Len(cTasks) :
          i <= Len(cTasks') => cTasks'[i].progress >= cTasks[i].progress]_vars

\* C15: every progress update the web renderer is handed, on the API path and
\* on the web-only path, carries the id of the UI task of the file it is about.
\* The UI tasks of the run are the tasks handleConversion was called with.
C15_UpdatesCarryTheUiTaskId ==
    /\ \A k \in 1..Len(lSeen) : \E i \in 1..Len(webRun) : webRun[i].id = lSeen[k].id
    /\ webPc # "idle" => \A n \in cNotified : SelectSeq(webRun, LAMBDA t : t.file)[n.index].id = n.id

\* on the web-only path the updates carry the ids of the UI tasks of the run
WebOnlyUpdatesCarryTheUiTaskId ==
    \A k \in 1..Len(lSeen) : \E i \in 1..Len(webRun) : webRun[i].id = lSeen[k].id

\* C16: no step of the renderer moves a task that is completed or failed to
\* another status under the same id; a file converted again gets a new id.
C16_TerminalTaskKeepsItsStatus ==
    [][\A i \in 1..Len(tasks), k \in 1..Len(tasks') :
          (tasks[i].id = tasks'[k].id /\ IsTerminal(tasks[i].status))
              => tasks'[k].status = tasks[i].status]_vars

\* while a run is in progress no task leaves completed or failed
TerminalTaskKeepsItsStatusDuringARun ==
    [][isConverting =>
          \A i \in 1..Len(tasks), k \in 1..Len(tasks') :
              (tasks[i].id = tasks'[k].id /\ IsTerminal(tasks[i].status))
                  => tasks'[k].status = tasks[i].status]_vars

\* C17: no two distinct job records have the same output path, also when the
\* same uploaded file is submitted for conversion more than once.
C17_OutputPathsAreDistinct ==
    \A a, b \in DOMAIN jobs : a # b => jobs[a].outputPath # jobs[b].outputPath

\* job records of different uploaded files have different output paths
OutputPathsOfDistinctFilesAreDistinct ==
    \A a, b \in DOMAIN jobs :
        jobs[a].fileId # jobs[b].fileId => jobs[a].outputPath # jobs[b].outputPath

\* the tasks a local converter has finished have different output paths
LocalOutputPathsAreDistinct ==
    \A i, k \in 1..Len(lUpdated) :
        (i # k /\ lUpdated[i].outputPath # AbsentPath)
            => lUpdated[i].outputPath # lUpdated[k].outputPath

\* C18: the response of POST /api/convert is produced before any job of the
\* batch becomes completed or failed. Every segment that handles a request
\* produces the response, and wherever a segment writes completed or failed
\* to a record, the request of that job was answered in an earlier segment or
\* the response precedes the write in the same segment.
C18_ResponseBeforeAnyTerminalStatus ==
    [][/\ reqCount' # reqCount =>
             \E k \in 1..Len(oplog') : oplog'[k].op = "respond"
       /\ \A i \in 1..Len(oplog') :
             (oplog'[i].op = "set" /\ IsTerminal(oplog'[i].status)) =>
                 \/ /\ oplog'[i].jobId \in DOMAIN batchOf
                    /\ batchOf[oplog'[i].jobId] <= reqCount
                 \/ \E k \in 1..(i - 1) : oplog'[k].op = "respond"]_vars

\* a batch of two was answered with its handles; in the segment of the
\* request, after the response, one job failed because its engine invocation
\* did not start, and the other job is still processing
C18_Witness ==
    /\ lastReq.code = 200
    /\ \E i \in 1..Len(oplog), k \in 1..Len(oplog) :
          /\ i < k
          /\ oplog[i].op = "respond"
          /\ oplog[k].op = "set" /\ oplog[k].status = "failed"
          /\ oplog[k].jobId \in lastReq.created
    /\ \E j \in lastReq.created : jobs[j].status = "processing"

\* C19: a step changes the record of a job only when that job's own
\* processConversion call ends in it, and then no other record changes; a
\* record that is completed or failed is stored under its own jobId and has the
\* status of the last event emitted for that job.
C19_SingleWriterPerRecord ==
    [][/\ \A j \in DOMAIN jobs :
             jobs'[j] # jobs[j] =>
                 /\ \E c \in calls \ calls' : c.jobId = j
                 /\ \A k \in (DOMAIN jobs) \ {j} : jobs'[k] = jobs[k]
       /\ \A j \in DOMAIN jobs' :
             IsTerminal(jobs'[j].status) =>
                 /\ jobs'[j].jobId = j
                 /\ emitted'[j][Len(emitted'[j])].jobId = j
                 /\ emitted'[j][Len(emitted'[j])].status = jobs'[j].status]_vars

\* the conversions of two jobs of one request have both ended, one completed
\* and the other failed
C19_Witness ==
    \E a, b \in DOMAIN jobs :
        /\ a # b /\ batchOf[a] = batchOf[b]
        /\ jobs[a].status = "completed" /\ jobs[b].status = "failed"
        /\ calls = {}

\* C20: when the engine invocation of a job ends, the job's record becomes
\* completed exactly when the process started, exited with code 0 and printed
\* a result with success true; in every other case the record becomes failed,
\* its error is the adapter's message for that case, and the last event
\* emitted for the job is a failed event with the same message. When the
\* promise executor threw, the process never ran and the record becomes
\* failed with the message of the thrown error; when the process could not be
\* started the record becomes failed in the segment of the request.
C20_EngineOutcomeMapping ==
    [][/\ reqCount' # reqCount =>
             \A i \in 1..Len(lastReq'.starts) :
                 LET j == nextUuid + i
                     start == lastReq'.starts[i]
                     rec == jobs'[j]
                     last == emitted'[j][Len(emitted'[j])]
                     message == IF start \in ExecutorThrows THEN ThrownMessage(start)
                                ELSE "Failed to start Python process"
                 IN IF start = "started"
                    THEN rec.status = "processing" /\ last.status = "processing"
                    ELSE /\ rec.status = "failed"
                         /\ rec.error = message
                         /\ last.status = "failed"
                         /\ last.error = message
       /\ \A c \in calls, o \in ProcessEnds :
          EngineReturns(c, o) =>
              LET p == PythonProcess(o)
                  good == p.started /\ p.code = 0 /\ p.parses /\ p.success
                  message == CASE ~p.started -> "Failed to start Python process"
                               [] p.started /\ p.code # 0 ->
                                     "Python process failed with code"
                               [] p.started /\ p.code = 0 /\ ~p.parses ->
                                     "Failed to parse conversion result"
                               [] OTHER -> p.error
                  rec == jobs'[c.jobId]
                  last == emitted'[c.jobId][Len(emitted'[c.jobId])]
              IN /\ (rec.status = "completed") <=> good
                 /\ good => last.status = "completed" /\ rec.error = Absent
                 /\ ~good => /\ rec.status = "failed"
                             /\ rec.error = message
                             /\ last.status = "failed"
                             /\ last.error = message]_vars

\* one job has failed with the engine's own message and another because the
\* process could not be started
C20_Witness ==
    \E a, b \in DOMAIN jobs :
        /\ jobs[a].status = "failed" /\ jobs[a].error = "engine error"
        /\ jobs[b].status = "failed" /\ jobs[b].error = "Failed to start Python process"

(***************************************************************************)
(* Claims about the engine adapter.                                        *)
(***************************************************************************)
\* C21: the temporary script of every invocation of convertWithMarkItDown is
\* eventually removed, whether the promise resolves or rejects.
C21_TempScriptEventuallyRemoved ==
    \A i \in Invocations : [](i \in tempScripts => <>(i \notin tempScripts))

\* once the process of an invocation has emitted 'close', and the unlinks it
\* started have settled, the temporary script is gone
TempScriptRemovedAfterClose ==
    \A i \in Invocations :
        (aPc[i] = "closed" /\ \A u \in unlinks : u.inv # i) => i \notin tempScripts

(***************************************************************************)
(* Claims about inputs of an unsupported type.                             *)
(***************************************************************************)
\* C22: in the web-only converter a task whose file has an unsupported type
\* ends failed with an error message, and no converter is invoked for it.
C22_UnsupportedTypeFailsWithoutConversion ==
    lVariant = "webOnly" =>
        /\ \A i \in 1..Len(lUpdated) :
              ~SupportedType(lUpdated[i].fileName) =>
                  lUpdated[i].status = "failed" /\ lUpdated[i].errorMessage # Absent
        /\ lPc = "await" => SupportedType(lCur[1].fileName)

\* the web-only converter hands the file of every task to some converter
EveryTypeIsHandedToAConverter ==
    (lVariant = "webOnly" /\ lPc = "await") =>
        ConvertSingleFile(lCur[1].fileName) \in {"convertDocx", "convertText", "convertHtml"}

\* on the API path the task of a file the upload filter refuses is failed, with
\* a message, and no conversion is started for it
RefusedUploadFailsItsTask ==
    cCause = "fileFilter" =>
        \A i \in 1..Len(cTasks) :
            ~cFiles[i].mimeOk => cTasks[i].status = "failed" /\ cTasks[i].errorMessage # Absent

(***************************************************************************)
(* Claims about downloads.                                                 *)
(***************************************************************************)
\* C23: GET /api/download/:fileId answers with an artifact only when a job of
\* that fileId is completed, and then with the output of that job; for every
\* other id the answer is 404.
C23_DownloadOnlyOfCompletedTask ==
    \A id \in DownloadIds : \A a \in Download(id) :
        IF \E j \in DOMAIN jobs : jobs[j].fileId = id /\ jobs[j].status = "completed"
        THEN a.code = 200 /\ jobs[a.jobId].fileId = id
        ELSE a.code = 404

\* a download requested with the whole id of an uploaded file is answered
\* with a file written for a job of that file
DownloadByWholeId ==
    \A id \in FileIds \cup {"f3"} : \A a \in Download(id) :
        a.code = 200 => jobs[a.jobId].fileId = id

\* when no script has failed after writing, and none is running, a download
\* requested with the whole id of a file is answered with the output of a
\* completed job of that file
DownloadOfCompletedWhenNothingElseIsWritten ==
    (\A j \in DOMAIN jobs : MayHaveWritten(jobs[j]) # {TRUE, FALSE}) =>
        \A id \in FileIds \cup {"f3"} : \A a \in Download(id) :
            a.code = 200 => jobs[a.jobId].fileId = id /\ jobs[a.jobId].status = "completed"

(***************************************************************************)
(* Claims about output names.                                              *)
(***************************************************************************)
\* C24: the output name of every job is its display name with the final
\* extension replaced by .md, so the output path of every job ends in .md.
C24_OutputNameEndsInMd ==
    \A j \in DOMAIN jobs :
        LET path == jobs[j].outputPath
        IN /\ Len(path) >= 3
           /\ SubSeq(path, Len(path) - 2, Len(path)) = <<".", "m", "d">>

\* the output path of a display name that has an extension ends in .md, and
\* when the name holds no path separator the output name keeps everything
\* before the last dot
NameWithExtensionEndsInMd ==
    \A j \in DOMAIN jobs :
        LET name == jobs[j].originalName
            d == LastDot(name)
            path == jobs[j].outputPath
        IN (d > 0 /\ d < Len(name)) =>
              /\ SubSeq(path, Len(path) - 2, Len(path)) = <<".", "m", "d">>
              /\ (\A i \in 1..Len(name) : name[i] # "/") =>
                     \* after OUTPUT_DIR, the separator, the file id and the dash
                     SubSeq(path, Len(OUTPUT_DIR) + 4, Len(path) - 3) = SubSeq(name, 1, d - 1)

(***************************************************************************)
(* Claims about the tasks of WebAPIClient.convertFiles reaching an end.    *)
(***************************************************************************)
\* C25: when convertFiles has returned, every conversion of the server has
\* ended, the socket (which was not closed by cleanup) has received every
\* event the server emitted and the client has handled every event it
\* received, then every task that was submitted is completed or failed.
C25_SubmittedTasksReachAnEnd ==
    ( /\ cPc = "returned"
      /\ cSocket
      /\ calls = {}
      /\ cRead = Len(received[ClientSocket])
      /\ \A j \in DOMAIN emitted : \A k \in 1..Len(emitted[j]) :
            \E n \in 1..Len(received[ClientSocket]) :
                received[ClientSocket][n] = emitted[j][k] )
        => \A i \in 1..Len(cTasks) : IsTerminal(cTasks[i].status)

\* in that situation a task that is not completed or failed is still queued
UnfinishedTasksMissedTheirEvent ==
    ( /\ cPc = "returned"
      /\ cSocket
      /\ calls = {}
      /\ cRead = Len(received[ClientSocket]) )
        => \A i \in 1..Len(cTasks) :
              IsTerminal(cTasks[i].status) \/ cTasks[i].status = "queued"

(***************************************************************************)
(* Claims about the sequence of events of a job.                           *)
(***************************************************************************)
\* C26: the events emitted for a job are a queued event with progress 0, then
\* a processing event with progress 10, then, once the job has ended, exactly
\* one completed event with progress 100 or failed event, and nothing after it.
C26_EventsOfAJob ==
    /\ DOMAIN emitted = DOMAIN jobs
    /\ \A j \in DOMAIN jobs :
          LET e == emitted[j]
          IN /\ Len(e) \in {2, 3}
             /\ \A k \in 1..Len(e) : e[k].jobId = j /\ e[k].fileId = jobs[j].fileId
             /\ e[1].status = "queued" /\ e[1].progress = 0
             /\ e[2].status = "processing" /\ e[2].progress = 10
             /\ Len(e) = 3 <=> IsTerminal(jobs[j].status)
             /\ Len(e) = 3 <=> (\A c \in calls : c.jobId # j)
             /\ Len(e) = 3 =>
                   /\ e[3].status = jobs[j].status
                   /\ e[3].status = "completed" => e[3].progress = 100

\* one job has had its three events ending with completed, another ending
\* with failed
C26_Witness ==
    \E a, b \in DOMAIN emitted :
        /\ Len(emitted[a]) = 3 /\ emitted[a][3].status = "completed"
        /\ Len(emitted[b]) = 3 /\ emitted[b][3].status = "failed"

(***************************************************************************)
(* Claims about the web renderer's run.                                    *)
(***************************************************************************)
\* C27: in the web renderer isConverting is never false while a task of the
\* run is uploading, queued or processing.
C27_ConvertingWhileTasksRun ==
    ~webConverting =>
        /\ \A i \in 1..Len(cTasks) :
              cTasks[i].status \notin {"uploading", "queued", "processing"}
        /\ \A i \in 1..Len(webUi) :
              webUi[i].status \notin {"uploading", "queued", "processing"}
        /\ lPc # "await"

\* while the web-only converter works on the tasks isConverting is true, and
\* when it is false again every task the web-only converter was given has ended
ConvertingWhileWebOnlyRuns ==
    /\ webPc = "webOnly" /\ lPc \notin {"returned", "threw"} => webConverting
    /\ (webPc = "done" /\ lPc = "returned") =>
          \A i \in 1..Len(lUpdated) : IsTerminal(lUpdated[i].status)

\* C28: on the API path every task that is completed has been downloaded:
\* once WebFileHandler.convertFiles has ended, which is the only place that
\* calls downloadFile, the id of every completed task is among the downloads.
C28_CompletedTasksAreDownloaded ==
    webPc = "done" =>
        \A i \in 1..Len(cTasks) :
            cTasks[i].status = "completed" => cTasks[i].id \in webDownloads

\* no task is completed at the moment webAPIClient.convertFiles returns: the
\* loop that follows the return finds nothing to download, in any run
NoTaskIsCompletedAtReturn ==
    /\ webPc # "download"
    /\ webDownloads = {}

(***************************************************************************)
(* Claims about the bookkeeping of active conversions.                     *)
(***************************************************************************)
\* C29: activeConversions holds a jobId exactly when the job's record is
\* queued or processing; activeJobs of GET /api/health is the number of jobs
\* that have not ended and totalJobs the number of jobs ever announced.
C29_ActiveIffNotEnded ==
    /\ activeConversions \subseteq DOMAIN jobs
    /\ \A j \in DOMAIN jobs :
          j \in activeConversions <=> jobs[j].status \in {"queued", "processing"}
    /\ GetHealth.activeJobs =
          Cardinality({j \in DOMAIN jobs : ~IsTerminal(jobs[j].status)})
    /\ GetHealth.totalJobs = Cardinality(DOMAIN emitted)

\* one job is still active while another has failed and is no longer active
C29_Witness ==
    \E a, b \in DOMAIN jobs :
        /\ a \in activeConversions /\ jobs[a].status = "processing"
        /\ b \notin activeConversions /\ jobs[b].status = "failed"
        /\ GetHealth.activeJobs = 1 /\ GetHealth.totalJobs = 2

(***************************************************************************)
(* Claims about the results of the local converters.                       *)
(***************************************************************************)
\* C30: convertFiles of the web-only converter and of the Electron main
\* process never ends by throwing, and returns one record per input task, in
\* input order, each completed or failed; the record of a task without a file
\* is failed with the message 'File not available'.
C30_OneResultPerTask ==
    lVariant \in {"webOnly", "electron"} =>
        /\ lPc # "threw"
        /\ lPc = "returned" =>
              /\ Len(lUpdated) = Len(lTasks)
              /\ \A i \in 1..Len(lUpdated) :
                    /\ lUpdated[i].id = lTasks[i].id
                    /\ IsTerminal(lUpdated[i].status)
                    /\ ~lTasks[i].file =>
                          /\ lUpdated[i].status = "failed"
                          /\ lUpdated[i].errorMessage = "File not available"

\* when no observer throws, both converters return one completed or failed
\* record per input task, in input order, and the web-only converter fails a
\* task without a file with 'File not available'
OneResultPerTaskWithoutObserverErrors ==
    (lVariant \in {"webOnly", "electron"} /\ lBad = {}) =>
        /\ lPc # "threw"
        /\ lPc = "returned" =>
              /\ Len(lUpdated) = Len(lTasks)
              /\ \A i \in 1..Len(lUpdated) :
                    /\ lUpdated[i].id = lTasks[i].id
                    /\ IsTerminal(lUpdated[i].status)
                    /\ (lVariant = "webOnly" /\ ~lTasks[i].file) =>
                          /\ lUpdated[i].status = "failed"
                          /\ lUpdated[i].errorMessage = "File not available"

\* the part of C30 about a task without a file, for the Electron converter
\* alone, which never looks at the task's file: it does not hold
ElectronFailsTaskWithoutFile ==
    (lVariant = "electron" /\ lPc = "returned") =>
        \A i \in 1..Len(lUpdated) :
            ~lTasks[i].file => lUpdated[i].errorMessage = "File not available"

====
